---- MODULE Spec2Model ----
(***************************************************************************)
(* Booking subsystem of the hotel / spa / restaurant reservation server:   *)
(* the three booking collections of server/storage.ts, the availability    *)
(* predicates over them, and the POST handlers of server/routes.ts that    *)
(* validate a payload, read availability, insert and respond.              *)
(*                                                                         *)
(* Every handler is run by a request process.  A handler awaits the        *)
(* availability read and, later, the insert; another request's insert can  *)
(* be served by the database between the two, so the read and the insert   *)
(* are separate steps.  Catalog tables are seeded once and never written   *)
(* by a handler, so catalog reads are folded into the step that uses them. *)
(***************************************************************************)
EXTENDS Bags, FiniteSets, Integers, Sequences, TLC

(***************************************************************************)
(* Bounds of the model.                                                    *)
(***************************************************************************)
NumProcs == 2
MaxRoomBookings == 4
MaxSpaBookings == 4
MaxRestaurantBookings == 3
MaxInstant == 4
TicksPerDay == 2

Procs == 1..NumProcs

(***************************************************************************)
(* Program constants.                                                      *)
(***************************************************************************)
RoomCapacity == 3
SpaCapacity == 3
RestaurantCapacity == 50
NumRoomTypes == 3
NumSpaServices == 3
NaN == 0 - 1

VARIABLES
    roomBookings,        \* table room_bookings, row id = position
    spaBookings,         \* table spa_bookings
    restaurantBookings,  \* table restaurant_bookings
    pc,                  \* per request process: "idle", "create", "done"
    req,                 \* per request process: the parsed payload (result.data)
    res,                 \* per request process: HTTP status of the response, 0 = none yet
    user,                \* per request process: req.user, the caller the session resolved
    booking,             \* per request process: id of the row the insert returned, 0 = none
    at,                  \* per request process: clock reading when the request arrived
    checked,             \* per request process: the availability engine was called
    last,                \* per request process: outcome of the request it is re-sending
    sent,                \* per request process: JSON body of a 200 / 201 response
    mail,                \* bag of the confirmation e-mails handed to the notifier
    now,                 \* clock of the server and its database
    stale,               \* history: processes whose availability read predates a later insert of their kind
    raced                \* history: a process inserted on a stale availability read

vars == <<roomBookings, spaBookings, restaurantBookings, pc, req, res, user, booking, at,
          checked, last, sent, mail, now, stale, raced>>

NoReq == [kind |-> "none"]
NoLast == [res |-> 0, booking |-> 0]
NoBody == [message |-> "none"]

\* a table row as the store returns it, with its serial id
Row(rows, id) == [id |-> id] @@ rows[id]

\* process p takes a new request, or the request it is sending again
Receives(p, body, caller) ==
    \/ pc[p] = "idle"
    \/ pc[p] = "again" /\ body = req[p] /\ caller = user[p]

(***************************************************************************)
(* Callers.  The session layer hands each request either a user record or  *)
(* nothing (anonymous).  A nullable column holds Null or NullText.         *)
(***************************************************************************)
Null == 0
NullText == "NULL"

users ==
    {[id |-> 1, role |-> "user", fullName |-> "Ana Alami", email |-> "ana.alami@example.org",
      phone |-> NullText],
     [id |-> 2, role |-> "admin", fullName |-> "Ben Idrissi", email |-> "ben.idrissi@example.org",
      phone |-> "0700"]}

Anonymous == [authenticated |-> FALSE, id |-> Null, role |-> "none"]
SignedIn(u) == [authenticated |-> TRUE, id |-> u.id, role |-> u.role]

Callers == {Anonymous} \cup {SignedIn(u) : u \in users}

\* z.string().email()
EmailAddresses == {"ana@example.org", "ben@example.org"}
IsEmail(s) == s \in EmailAddresses

(***************************************************************************)
(* Dates.  A payload carries dates as strings; new Date(s) yields an       *)
(* instant, or an Invalid Date (NaN) when the string does not parse.       *)
(***************************************************************************)
DateString(t) == [parses |-> TRUE, instant |-> t, form |-> "iso"]
BadDateString == [parses |-> FALSE, instant |-> 0, form |-> "none"]

\* a string that denotes the instant t with a UTC offset instead of Z
OffsetDateString(t) == [parses |-> TRUE, instant |-> t, form |-> "offset"]

\* Date.prototype.toJSON: the ISO string of an instant
DateToJSON(t) == DateString(t)

ParseDate(s) == IF s.parses THEN s.instant ELSE NaN

\* SQL DATE(ts): the calendar date of a timestamp, time-of-day dropped
DateOf(t) == t \div TicksPerDay

(***************************************************************************)
(* Catalog (seeded by initializeData, never modified afterwards).          *)
(***************************************************************************)
roomTypes == 1..NumRoomTypes
spaServices == 1..NumSpaServices

getRoomTypeById(id) == id \in roomTypes
getSpaServiceById(id) == id \in spaServices

(***************************************************************************)
(* Room bookings.                                                          *)
(***************************************************************************)
RoomRequired ==
    {"roomTypeId", "guestName", "guestEmail", "checkInDate", "checkOutDate", "adults",
     "totalPrice"}

\* body.missing: the schema keys the payload does not carry;
\* body.mistyped: the schema keys whose value has the wrong JSON type

\* variant: adults is any integer
insertRoomBookingSchema_anyAdults(body) ==
    /\ body.mistyped = {}
    /\ body.missing \cap RoomRequired = {}
    /\ "userId" \notin body.missing => body.userId > 0
    /\ body.roomTypeId > 0
    /\ Len(body.guestName) >= 2
    /\ IsEmail(body.guestEmail)
    /\ "children" \notin body.missing => body.children >= 0
    /\ body.totalPrice > 0

insertRoomBookingSchema(body) ==
    /\ body.mistyped = {}
    /\ body.missing \cap RoomRequired = {}
    /\ "userId" \notin body.missing => body.userId > 0
    /\ body.roomTypeId > 0
    /\ Len(body.guestName) >= 2
    /\ IsEmail(body.guestEmail)
    /\ body.adults > 0
    /\ "children" \notin body.missing => body.children >= 0
    /\ body.totalPrice > 0

\* result.data with the caller's id written over userId when a user is signed in
RoomBookingData(body, caller) ==
    [roomTypeId      |-> body.roomTypeId,
     userId          |-> IF caller.authenticated THEN caller.id
                         ELSE IF "userId" \in body.missing THEN Null ELSE body.userId,
     guestName       |-> body.guestName,
     guestEmail      |-> body.guestEmail,
     guestPhone      |-> IF "guestPhone" \in body.missing THEN NullText ELSE body.guestPhone,
     checkInDate     |-> body.checkInDate,
     checkOutDate    |-> body.checkOutDate,
     adults          |-> body.adults,
     children        |-> IF "children" \in body.missing THEN 0 ELSE body.children,
     specialRequests |-> IF "specialRequests" \in body.missing THEN NullText
                         ELSE body.specialRequests,
     totalPrice      |-> body.totalPrice]

\* the WHERE clause of checkRoomAvailability applied to one stored row
RoomOverlaps(b, checkInDate, checkOutDate) ==
    \/ b.checkInDate <= checkInDate /\ b.checkOutDate > checkInDate
    \/ b.checkInDate < checkOutDate /\ b.checkOutDate >= checkOutDate
    \/ b.checkInDate >= checkInDate /\ b.checkOutDate <= checkOutDate

\* variant: cancelled and completed rows are left out of the count
overlappingBookings_active(rows, roomTypeId, checkInDate, checkOutDate) ==
    {i \in DOMAIN rows :
        /\ rows[i].roomTypeId = roomTypeId
        /\ rows[i].status \notin {"cancelled", "completed"}
        /\ RoomOverlaps(rows[i], checkInDate, checkOutDate)}

\* variant: the roomTypeId filter is dropped from the WHERE clause
overlappingBookings_anyType(rows, roomTypeId, checkInDate, checkOutDate) ==
    {i \in DOMAIN rows : RoomOverlaps(rows[i], checkInDate, checkOutDate)}

overlappingBookings(rows, roomTypeId, checkInDate, checkOutDate) ==
    {i \in DOMAIN rows :
        /\ rows[i].roomTypeId = roomTypeId
        /\ RoomOverlaps(rows[i], checkInDate, checkOutDate)}

\* variant: a candidate is admitted when fewer than 3 rows cover each of its instants
checkRoomAvailability_perInstant(rows, roomTypeId, checkInDate, checkOutDate) ==
    IF ~getRoomTypeById(roomTypeId) THEN FALSE
    ELSE \A instant \in checkInDate..(checkOutDate - 1) :
            Cardinality({i \in DOMAIN rows :
                            /\ rows[i].roomTypeId = roomTypeId
                            /\ rows[i].checkInDate <= instant
                            /\ instant < rows[i].checkOutDate}) < RoomCapacity

\* variant: a candidate is admitted while at most 3 rows overlap it
checkRoomAvailability_inclusive(rows, roomTypeId, checkInDate, checkOutDate) ==
    IF ~getRoomTypeById(roomTypeId) THEN FALSE
    ELSE Cardinality(overlappingBookings(rows, roomTypeId, checkInDate, checkOutDate)) <= RoomCapacity

\* variant: the room type is not looked up before counting
checkRoomAvailability_noLookup(rows, roomTypeId, checkInDate, checkOutDate) ==
    Cardinality(overlappingBookings(rows, roomTypeId, checkInDate, checkOutDate)) < RoomCapacity

checkRoomAvailability(rows, roomTypeId, checkInDate, checkOutDate) ==
    IF ~getRoomTypeById(roomTypeId) THEN FALSE
    ELSE Cardinality(overlappingBookings(rows, roomTypeId, checkInDate, checkOutDate)) < RoomCapacity

\* variant: new rows await approval
createRoomBooking_pending(rows, data) ==
    Append(rows, [roomTypeId      |-> data.roomTypeId,
                  userId          |-> data.userId,
                  guestName       |-> data.guestName,
                  guestEmail      |-> data.guestEmail,
                  guestPhone      |-> data.guestPhone,
                  checkInDate     |-> ParseDate(data.checkInDate),
                  checkOutDate    |-> ParseDate(data.checkOutDate),
                  adults          |-> data.adults,
                  children        |-> data.children,
                  specialRequests |-> data.specialRequests,
                  totalPrice      |-> data.totalPrice,
                  status          |-> "pending",
                  createdAt       |-> now])

\* variant: the time of day of the stay's dates is dropped
createRoomBooking_dateOnly(rows, data) ==
    Append(rows, [roomTypeId      |-> data.roomTypeId,
                  userId          |-> data.userId,
                  guestName       |-> data.guestName,
                  guestEmail      |-> data.guestEmail,
                  guestPhone      |-> data.guestPhone,
                  checkInDate     |-> DateOf(ParseDate(data.checkInDate)) * TicksPerDay,
                  checkOutDate    |-> DateOf(ParseDate(data.checkOutDate)) * TicksPerDay,
                  adults          |-> data.adults,
                  children        |-> data.children,
                  specialRequests |-> data.specialRequests,
                  totalPrice      |-> data.totalPrice,
                  status          |-> "confirmed",
                  createdAt       |-> now])

\* variant: a row whose content is already stored is not inserted again
createRoomBooking_dedup(rows, data) ==
    LET new == Append(rows, [roomTypeId      |-> data.roomTypeId,
                      userId          |-> data.userId,
                      guestName       |-> data.guestName,
                      guestEmail      |-> data.guestEmail,
                      guestPhone      |-> data.guestPhone,
                      checkInDate     |-> ParseDate(data.checkInDate),
                      checkOutDate    |-> ParseDate(data.checkOutDate),
                      adults          |-> data.adults,
                      children        |-> data.children,
                      specialRequests |-> data.specialRequests,
                      totalPrice      |-> data.totalPrice,
                      status          |-> "confirmed",
                      createdAt       |-> now])
        row == new[Len(new)]
    IN  IF \E i \in DOMAIN rows : [rows[i] EXCEPT !.createdAt = 0] = [row EXCEPT !.createdAt = 0]
          THEN rows
          ELSE new

createRoomBooking(rows, data) ==
    Append(rows, [roomTypeId      |-> data.roomTypeId,
                  userId          |-> data.userId,
                  guestName       |-> data.guestName,
                  guestEmail      |-> data.guestEmail,
                  guestPhone      |-> data.guestPhone,
                  checkInDate     |-> ParseDate(data.checkInDate),
                  checkOutDate    |-> ParseDate(data.checkOutDate),
                  adults          |-> data.adults,
                  children        |-> data.children,
                  specialRequests |-> data.specialRequests,
                  totalPrice      |-> data.totalPrice,
                  status          |-> "confirmed",
                  createdAt       |-> now])

\* the call of a send...Confirmation function; the promise settles later
\* variant: the message is handed over a second time
Notify_twice(kind, id, to) ==
    mail (+) SetToBag({[kind |-> kind, id |-> id, to |-> to, state |-> "pending"]})
         (+) SetToBag({[kind |-> kind, id |-> id, to |-> to, state |-> "pending"]})

Notify(kind, id, to) ==
    mail (+) SetToBag({[kind |-> kind, id |-> id, to |-> to, state |-> "pending"]})

\* the read of checkRoomAvailability fails in the database when a bound
\* parameter is an Invalid Date; the room type is looked up first
RoomCheckThrows(body) ==
    /\ getRoomTypeById(body.roomTypeId)
    /\ (ParseDate(body.checkInDate) = NaN \/ ParseDate(body.checkOutDate) = NaN)

InFlight(kind) == {q \in Procs : pc[q] = "create" /\ req[q].kind = kind}

\* POST /api/room-bookings up to and including the availability read
RoomCheck(p, body, caller) ==
    /\ Receives(p, body, caller)
    /\ body.kind = "room"
    /\ req' = [req EXCEPT ![p] = body]
    /\ user' = [user EXCEPT ![p] = caller]
    /\ at' = [at EXCEPT ![p] = now]
    /\ checked' = [checked EXCEPT ![p] = insertRoomBookingSchema(body)]
    /\ IF ~insertRoomBookingSchema(body)
         THEN pc' = [pc EXCEPT ![p] = "done"] /\ res' = [res EXCEPT ![p] = 400]
       ELSE IF RoomCheckThrows(body)
         THEN pc' = [pc EXCEPT ![p] = "done"] /\ res' = [res EXCEPT ![p] = 500]
       ELSE IF ~checkRoomAvailability(roomBookings, body.roomTypeId,
                    ParseDate(body.checkInDate), ParseDate(body.checkOutDate))
         THEN pc' = [pc EXCEPT ![p] = "done"] /\ res' = [res EXCEPT ![p] = 409]
       ELSE /\ Len(roomBookings) + Cardinality(InFlight("room")) < MaxRoomBookings
            /\ pc' = [pc EXCEPT ![p] = "create"] /\ res' = res
    /\ UNCHANGED <<roomBookings, spaBookings, restaurantBookings, booking, last, mail,
                   now, stale, raced,
                   sent>>

\* variant: the insert is conditional on a fresh availability read
RoomCreate_conditional(p) ==
    /\ pc[p] = "create"
    /\ req[p].kind = "room"
    /\ IF checkRoomAvailability(roomBookings, req[p].roomTypeId,
              ParseDate(req[p].checkInDate), ParseDate(req[p].checkOutDate))
         THEN /\ roomBookings' = createRoomBooking(roomBookings,
                                       RoomBookingData(req[p], user[p]))
              /\ booking' = [booking EXCEPT ![p] = Len(roomBookings) + 1]
              /\ mail' = Notify("room", Len(roomBookings) + 1, req[p].guestEmail)
              /\ res' = [res EXCEPT ![p] = 201]
         ELSE /\ roomBookings' = roomBookings
              /\ booking' = booking
              /\ mail' = mail
              /\ res' = [res EXCEPT ![p] = 409]
    /\ pc' = [pc EXCEPT ![p] = "done"]
    /\ raced' = (raced \/ p \in stale)
    /\ stale' = (stale \cup (InFlight("room") \ {p})) \ {p}
    /\ UNCHANGED <<spaBookings, restaurantBookings, req, user, at, checked, last, now,
                   sent>>

\* POST /api/room-bookings from the insert to the 201 response
RoomCreate(p) ==
    /\ pc[p] = "create"
    /\ req[p].kind = "room"
    /\ roomBookings' = createRoomBooking(roomBookings, RoomBookingData(req[p], user[p]))
    /\ booking' = [booking EXCEPT ![p] = Len(roomBookings) + 1]
    /\ sent' = [sent EXCEPT ![p] = Row(roomBookings', Len(roomBookings'))]
    /\ mail' = IF getRoomTypeById(req[p].roomTypeId)
                 THEN Notify("room", Len(roomBookings) + 1, req[p].guestEmail)
                 ELSE mail
    /\ pc' = [pc EXCEPT ![p] = "done"]
    /\ res' = [res EXCEPT ![p] = 201]
    /\ raced' = (raced \/ p \in stale)
    /\ stale' = (stale \cup (InFlight("room") \ {p})) \ {p}
    /\ UNCHANGED <<spaBookings, restaurantBookings, req, user, at, checked, last, now>>

(***************************************************************************)
(* Spa bookings.                                                           *)
(***************************************************************************)
SpaRequired ==
    {"serviceId", "guestName", "guestEmail", "date", "time", "participants", "totalPrice"}

insertSpaBookingSchema(body) ==
    /\ body.mistyped = {}
    /\ body.missing \cap SpaRequired = {}
    /\ "userId" \notin body.missing => body.userId > 0
    /\ body.serviceId > 0
    /\ Len(body.guestName) >= 2
    /\ IsEmail(body.guestEmail)
    /\ body.participants > 0
    /\ body.totalPrice > 0

SpaBookingData(body, caller) ==
    [serviceId       |-> body.serviceId,
     userId          |-> IF caller.authenticated THEN caller.id
                         ELSE IF "userId" \in body.missing THEN Null ELSE body.userId,
     guestName       |-> body.guestName,
     guestEmail      |-> body.guestEmail,
     guestPhone      |-> IF "guestPhone" \in body.missing THEN NullText ELSE body.guestPhone,
     date            |-> body.date,
     time            |-> body.time,
     participants    |-> body.participants,
     specialRequests |-> IF "specialRequests" \in body.missing THEN NullText
                         ELSE body.specialRequests,
     totalPrice      |-> body.totalPrice]

\* variant: stored and requested timestamps are compared without DATE()
sameTimeSpaBookings_timestamp(rows, serviceId, date, time) ==
    {i \in DOMAIN rows :
        /\ rows[i].serviceId = serviceId
        /\ rows[i].date = date
        /\ rows[i].time = time}

sameTimeSpaBookings(rows, serviceId, date, time) ==
    {i \in DOMAIN rows :
        /\ rows[i].serviceId = serviceId
        /\ DateOf(rows[i].date) = DateOf(date)
        /\ rows[i].time = time}

\* variant: the capacity comparison is inclusive
checkSpaAvailability_inclusive(rows, serviceId, date, time) ==
    IF ~getSpaServiceById(serviceId) THEN FALSE
    ELSE Cardinality(sameTimeSpaBookings(rows, serviceId, date, time)) <= SpaCapacity

checkSpaAvailability(rows, serviceId, date, time) ==
    IF ~getSpaServiceById(serviceId) THEN FALSE
    ELSE Cardinality(sameTimeSpaBookings(rows, serviceId, date, time)) < SpaCapacity

createSpaBooking(rows, data) ==
    Append(rows, [serviceId       |-> data.serviceId,
                  userId          |-> data.userId,
                  guestName       |-> data.guestName,
                  guestEmail      |-> data.guestEmail,
                  guestPhone      |-> data.guestPhone,
                  date            |-> ParseDate(data.date),
                  time            |-> data.time,
                  participants    |-> data.participants,
                  specialRequests |-> data.specialRequests,
                  totalPrice      |-> data.totalPrice,
                  status          |-> "confirmed",
                  createdAt       |-> now])

SpaCheckThrows(body) ==
    /\ getSpaServiceById(body.serviceId)
    /\ ParseDate(body.date) = NaN

\* POST /api/spa-bookings up to and including the availability read
SpaCheck(p, body, caller) ==
    /\ Receives(p, body, caller)
    /\ body.kind = "spa"
    /\ req' = [req EXCEPT ![p] = body]
    /\ user' = [user EXCEPT ![p] = caller]
    /\ at' = [at EXCEPT ![p] = now]
    /\ checked' = [checked EXCEPT ![p] = insertSpaBookingSchema(body)]
    /\ IF ~insertSpaBookingSchema(body)
         THEN pc' = [pc EXCEPT ![p] = "done"] /\ res' = [res EXCEPT ![p] = 400]
       ELSE IF SpaCheckThrows(body)
         THEN pc' = [pc EXCEPT ![p] = "done"] /\ res' = [res EXCEPT ![p] = 500]
       ELSE IF ~checkSpaAvailability(spaBookings, body.serviceId, ParseDate(body.date), body.time)
         THEN pc' = [pc EXCEPT ![p] = "done"] /\ res' = [res EXCEPT ![p] = 409]
       ELSE /\ Len(spaBookings) + Cardinality(InFlight("spa")) < MaxSpaBookings
            /\ pc' = [pc EXCEPT ![p] = "create"] /\ res' = res
    /\ UNCHANGED <<roomBookings, spaBookings, restaurantBookings, booking, last, mail,
                   now, stale, raced,
                   sent>>

\* POST /api/spa-bookings from the insert to the 201 response
SpaCreate(p) ==
    /\ pc[p] = "create"
    /\ req[p].kind = "spa"
    /\ spaBookings' = createSpaBooking(spaBookings, SpaBookingData(req[p], user[p]))
    /\ booking' = [booking EXCEPT ![p] = Len(spaBookings) + 1]
    /\ sent' = [sent EXCEPT ![p] = Row(spaBookings', Len(spaBookings'))]
    /\ mail' = IF getSpaServiceById(req[p].serviceId)
                 THEN Notify("spa", Len(spaBookings) + 1, req[p].guestEmail)
                 ELSE mail
    /\ pc' = [pc EXCEPT ![p] = "done"]
    /\ res' = [res EXCEPT ![p] = 201]
    /\ raced' = (raced \/ p \in stale)
    /\ stale' = (stale \cup (InFlight("spa") \ {p})) \ {p}
    /\ UNCHANGED <<roomBookings, restaurantBookings, req, user, at, checked, last, now>>

(***************************************************************************)
(* Restaurant bookings.                                                    *)
(***************************************************************************)
RestaurantRequired == {"guestName", "guestEmail", "date", "time", "partySize", "mealPeriod"}

insertRestaurantBookingSchema(body) ==
    /\ body.mistyped = {}
    /\ body.missing \cap RestaurantRequired = {}
    /\ "userId" \notin body.missing => body.userId > 0
    /\ Len(body.guestName) >= 2
    /\ IsEmail(body.guestEmail)
    /\ body.partySize > 0

RestaurantBookingData(body, caller) ==
    [userId          |-> IF caller.authenticated THEN caller.id
                         ELSE IF "userId" \in body.missing THEN Null ELSE body.userId,
     guestName       |-> body.guestName,
     guestEmail      |-> body.guestEmail,
     guestPhone      |-> IF "guestPhone" \in body.missing THEN NullText ELSE body.guestPhone,
     date            |-> body.date,
     time            |-> body.time,
     partySize       |-> body.partySize,
     mealPeriod      |-> body.mealPeriod,
     specialRequests |-> IF "specialRequests" \in body.missing THEN NullText
                         ELSE body.specialRequests]

sameTimeRestaurantBookings(rows, date, time, mealPeriod) ==
    {i \in DOMAIN rows :
        /\ DateOf(rows[i].date) = DateOf(date)
        /\ rows[i].time = time
        /\ rows[i].mealPeriod = mealPeriod}

\* sameTimeBookings.reduce((sum, booking) => sum + booking.partySize, 0)
RECURSIVE totalSeats(_, _)
totalSeats(rows, matching) ==
    IF matching = {} THEN 0
    ELSE LET i == CHOOSE j \in matching : TRUE
         IN  rows[i].partySize + totalSeats(rows, matching \ {i})

\* variant: the seating comparison is strict
checkRestaurantAvailability_strict(rows, date, time, partySize, mealPeriod) ==
    totalSeats(rows, sameTimeRestaurantBookings(rows, date, time, mealPeriod)) + partySize
        < RestaurantCapacity

checkRestaurantAvailability(rows, date, time, partySize, mealPeriod) ==
    totalSeats(rows, sameTimeRestaurantBookings(rows, date, time, mealPeriod)) + partySize
        <= RestaurantCapacity

createRestaurantBooking(rows, data) ==
    Append(rows, [userId          |-> data.userId,
                  guestName       |-> data.guestName,
                  guestEmail      |-> data.guestEmail,
                  guestPhone      |-> data.guestPhone,
                  date            |-> ParseDate(data.date),
                  time            |-> data.time,
                  partySize       |-> data.partySize,
                  mealPeriod      |-> data.mealPeriod,
                  specialRequests |-> data.specialRequests,
                  status          |-> "confirmed",
                  createdAt       |-> now])

RestaurantCheckThrows(body) == ParseDate(body.date) = NaN

\* POST /api/restaurant-bookings up to and including the availability read
RestaurantCheck(p, body, caller) ==
    /\ Receives(p, body, caller)
    /\ body.kind = "restaurant"
    /\ req' = [req EXCEPT ![p] = body]
    /\ user' = [user EXCEPT ![p] = caller]
    /\ at' = [at EXCEPT ![p] = now]
    /\ checked' = [checked EXCEPT ![p] = insertRestaurantBookingSchema(body)]
    /\ IF ~insertRestaurantBookingSchema(body)
         THEN pc' = [pc EXCEPT ![p] = "done"] /\ res' = [res EXCEPT ![p] = 400]
       ELSE IF RestaurantCheckThrows(body)
         THEN pc' = [pc EXCEPT ![p] = "done"] /\ res' = [res EXCEPT ![p] = 500]
       ELSE IF ~checkRestaurantAvailability(restaurantBookings, ParseDate(body.date),
                    body.time, body.partySize, body.mealPeriod)
         THEN pc' = [pc EXCEPT ![p] = "done"] /\ res' = [res EXCEPT ![p] = 409]
       ELSE /\ Len(restaurantBookings) + Cardinality(InFlight("restaurant"))
                  < MaxRestaurantBookings
            /\ pc' = [pc EXCEPT ![p] = "create"] /\ res' = res
    /\ UNCHANGED <<roomBookings, spaBookings, restaurantBookings, booking, last, mail,
                   now, stale, raced,
                   sent>>

\* POST /api/restaurant-bookings from the insert to the 201 response
RestaurantCreate(p) ==
    /\ pc[p] = "create"
    /\ req[p].kind = "restaurant"
    /\ restaurantBookings' = createRestaurantBooking(restaurantBookings,
                                  RestaurantBookingData(req[p], user[p]))
    /\ booking' = [booking EXCEPT ![p] = Len(restaurantBookings) + 1]
    /\ sent' = [sent EXCEPT ![p] = Row(restaurantBookings', Len(restaurantBookings'))]
    /\ mail' = Notify("restaurant", Len(restaurantBookings) + 1, req[p].guestEmail)
    /\ pc' = [pc EXCEPT ![p] = "done"]
    /\ res' = [res EXCEPT ![p] = 201]
    /\ raced' = (raced \/ p \in stale)
    /\ stale' = (stale \cup (InFlight("restaurant") \ {p})) \ {p}
    /\ UNCHANGED <<roomBookings, spaBookings, req, user, at, checked, last, now>>

\* the response has been sent; the process serves the next request
Reply(p) ==
    /\ pc[p] = "done"
    /\ pc' = [pc EXCEPT ![p] = "idle"]
    /\ req' = [req EXCEPT ![p] = NoReq]
    /\ res' = [res EXCEPT ![p] = 0]
    /\ user' = [user EXCEPT ![p] = Anonymous]
    /\ booking' = [booking EXCEPT ![p] = 0]
    /\ at' = [at EXCEPT ![p] = 0]
    /\ checked' = [checked EXCEPT ![p] = FALSE]
    /\ last' = [last EXCEPT ![p] = NoLast]
    /\ sent' = [sent EXCEPT ![p] = NoBody]
    /\ UNCHANGED <<roomBookings, spaBookings, restaurantBookings, mail, now, stale, raced>>

Init ==
    /\ roomBookings = <<>>
    /\ spaBookings = <<>>
    /\ restaurantBookings = <<>>
    /\ pc = [p \in Procs |-> "idle"]
    /\ req = [p \in Procs |-> NoReq]
    /\ res = [p \in Procs |-> 0]
    /\ user = [p \in Procs |-> Anonymous]
    /\ booking = [p \in Procs |-> 0]
    /\ at = [p \in Procs |-> 0]
    /\ checked = [p \in Procs |-> FALSE]
    /\ last = [p \in Procs |-> NoLast]
    /\ sent = [p \in Procs |-> NoBody]
    /\ mail = EmptyBag
    /\ now = 0
    /\ stale = {}
    /\ raced = FALSE

(***************************************************************************)
(* Payloads submitted in the sequential room specification.                *)
(***************************************************************************)
RoomBody(t, in, out) ==
    [kind |-> "room", roomTypeId |-> t, checkInDate |-> in, checkOutDate |-> out,
     userId |-> 0, guestName |-> "Ana", guestEmail |-> "ana@example.org",
     guestPhone |-> "0600", adults |-> 2, children |-> 1, specialRequests |-> "none",
     totalPrice |-> 100, status |-> "", missing |-> {"userId", "status"}, mistyped |-> {}]

RoomStays == {<<1, 2>>, <<2, 3>>, <<1, 3>>, <<2, 2>>, <<3, 1>>}

RoomBodies ==
    {RoomBody(1, DateString(s[1]), DateString(s[2])) : s \in RoomStays}
      \cup {RoomBody(2, DateString(1), DateString(3)),
            RoomBody(0, DateString(1), DateString(2)),
            RoomBody(NumRoomTypes + 1, DateString(1), DateString(2)),
            RoomBody(1, BadDateString, DateString(2)),
            RoomBody(1, DateString(1), BadDateString)}

NextRoom ==
    \/ \E body \in RoomBodies : RoomCheck(1, body, Anonymous)
    \/ RoomCreate(1)
    \/ Reply(1)

SpecRoom == Init /\ [][NextRoom]_vars

(***************************************************************************)
(* Payloads submitted in the sequential spa specification.                 *)
(***************************************************************************)
SpaBody(s, d, t, n) ==
    [kind |-> "spa", serviceId |-> s, date |-> d, time |-> t, participants |-> n,
     userId |-> 0, guestName |-> "Ana", guestEmail |-> "ana@example.org",
     guestPhone |-> "0600", specialRequests |-> "none", totalPrice |-> 100,
     status |-> "", missing |-> {"userId", "status"}, mistyped |-> {}]

SpaBodies ==
    {SpaBody(s, DateString(d), "9:00 AM", 1) : s \in {1, 2}, d \in {0, 1, TicksPerDay}}
      \cup {SpaBody(1, DateString(0), "9:00 AM", 2),
            SpaBody(1, DateString(0), "10:00 AM", 1),
            SpaBody(0, DateString(0), "9:00 AM", 1),
            SpaBody(1, DateString(0), "9:00 AM", 0),
            SpaBody(NumSpaServices + 1, DateString(0), "9:00 AM", 1),
            SpaBody(1, BadDateString, "9:00 AM", 1)}

NextSpa ==
    \/ \E body \in SpaBodies : SpaCheck(1, body, Anonymous)
    \/ SpaCreate(1)
    \/ Reply(1)

SpecSpa == Init /\ [][NextSpa]_vars

(***************************************************************************)
(* Payloads submitted in the sequential restaurant specification.          *)
(***************************************************************************)
RestaurantBody(d, t, n, m) ==
    [kind |-> "restaurant", date |-> d, time |-> t, partySize |-> n, mealPeriod |-> m,
     userId |-> 0, guestName |-> "Ana", guestEmail |-> "ana@example.org",
     guestPhone |-> "0600", specialRequests |-> "none",
     status |-> "", missing |-> {"userId", "status"}, mistyped |-> {}]

RestaurantBodies ==
    {RestaurantBody(DateString(d), "7:00 PM", n, "dinner") : d \in {0, 1, TicksPerDay}, n \in {5, 24}}
      \cup {RestaurantBody(DateString(0), "8:00 PM", 24, "dinner"),
            RestaurantBody(DateString(0), "7:00 PM", 24, "lunch"),
            RestaurantBody(DateString(0), "7:00 PM", 0, "dinner"),
            RestaurantBody(BadDateString, "7:00 PM", 5, "dinner")}

NextRestaurant ==
    \/ \E body \in RestaurantBodies : RestaurantCheck(1, body, Anonymous)
    \/ RestaurantCreate(1)
    \/ Reply(1)

SpecRestaurant == Init /\ [][NextRestaurant]_vars

(***************************************************************************)
(* Concurrent submissions of the three kinds, one capacity group each,     *)
(* and one unknown catalog id for rooms and for spa.                       *)
(***************************************************************************)
RaceBodies ==
    {RoomBody(1, DateString(1), DateString(3)),
     RoomBody(NumRoomTypes + 1, DateString(1), DateString(3)),
     SpaBody(1, DateString(0), "9:00 AM", 2),
     SpaBody(NumSpaServices + 1, DateString(0), "9:00 AM", 2),
     RestaurantBody(DateString(0), "7:00 PM", 24, "dinner")}

NextRace ==
    \E p \in Procs :
        \/ \E body \in RaceBodies : RoomCheck(p, body, Anonymous)
        \/ RoomCreate(p)
        \/ \E body \in RaceBodies : SpaCheck(p, body, Anonymous)
        \/ SpaCreate(p)
        \/ \E body \in RaceBodies : RestaurantCheck(p, body, Anonymous)
        \/ RestaurantCreate(p)
        \/ Reply(p)

SpecRace == Init /\ [][NextRace]_vars

(***************************************************************************)
(* Concurrent spa and restaurant submissions, the bookings of a group made *)
(* for different times of one day.                                         *)
(***************************************************************************)
CapBodies ==
    {SpaBody(1, DateString(0), "9:00 AM", 2),
     SpaBody(1, DateString(1), "9:00 AM", 1),
     RestaurantBody(DateString(0), "7:00 PM", 24, "dinner")}

NextCap ==
    \E p \in Procs :
        \/ \E body \in CapBodies : SpaCheck(p, body, Anonymous)
        \/ SpaCreate(p)
        \/ \E body \in CapBodies : RestaurantCheck(p, body, Anonymous)
        \/ RestaurantCreate(p)
        \/ Reply(p)

SpecCap == Init /\ [][NextCap]_vars

(***************************************************************************)
(* Capacity groups, as the properties below speak of them.                 *)
(***************************************************************************)
Instants == 0..MaxInstant

\* bookings of the row's room type that the availability read of a
\* submission with the row's own stay would count
RoomGroupSize(rows, i) ==
    Cardinality({j \in DOMAIN rows :
        /\ rows[j].roomTypeId = rows[i].roomTypeId
        /\ RoomOverlaps(rows[j], rows[i].checkInDate, rows[i].checkOutDate)})

SpaGroupSize(rows, i) ==
    Cardinality({j \in DOMAIN rows :
        /\ rows[j].serviceId = rows[i].serviceId
        /\ rows[j].date \div TicksPerDay = rows[i].date \div TicksPerDay
        /\ rows[j].time = rows[i].time})

\* seats of the first k rows that share date, slot and meal period with row i
RECURSIVE SeatsBefore(_, _, _)
SeatsBefore(rows, i, k) ==
    IF k = 0 THEN 0
    ELSE SeatsBefore(rows, i, k - 1) +
         (IF /\ rows[k].date \div TicksPerDay = rows[i].date \div TicksPerDay
             /\ rows[k].time = rows[i].time
             /\ rows[k].mealPeriod = rows[i].mealPeriod
          THEN rows[k].partySize ELSE 0)

RestaurantGroupSeats(rows, i) == SeatsBefore(rows, i, Len(rows))

\* load of the capacity group a validated payload targets, and the load
\* the payload adds to it
GroupLoad(rooms, spas, rests, body) ==
    IF body.kind = "room"
      THEN Cardinality(overlappingBookings(rooms, body.roomTypeId,
                ParseDate(body.checkInDate), ParseDate(body.checkOutDate)))
    ELSE IF body.kind = "spa"
      THEN Cardinality(sameTimeSpaBookings(spas, body.serviceId, ParseDate(body.date), body.time))
    ELSE totalSeats(rests, sameTimeRestaurantBookings(rests, ParseDate(body.date),
                body.time, body.mealPeriod))

GroupWeight(body) == IF body.kind = "restaurant" THEN body.partySize ELSE 1

(***************************************************************************)
(* C1.  A submission whose availability read admitted it inserts its row   *)
(* and answers 201 whatever other submissions have inserted since the      *)
(* read: the load of its capacity group grows by its own weight even when  *)
(* the group has meanwhile been filled.  Two submissions that both read    *)
(* before either inserts are therefore both persisted, and the store can   *)
(* end over the cap (see RaceOverCap).                                     *)
(***************************************************************************)
AdmittedSubmissionAlwaysInserts ==
    [][\A p \in Procs :
          (pc[p] = "create" /\ pc'[p] # "create") =>
              /\ res'[p] = 201
              /\ GroupLoad(roomBookings', spaBookings', restaurantBookings', req[p])
                    = GroupLoad(roomBookings, spaBookings, restaurantBookings, req[p])
                        + GroupWeight(req[p])]_vars

\* C1 witness: after interleaved submissions every kind is over its cap
RaceOverCap ==
    /\ raced
    /\ \E i \in DOMAIN roomBookings : RoomGroupSize(roomBookings, i) > RoomCapacity
    /\ \E i \in DOMAIN spaBookings : SpaGroupSize(spaBookings, i) > SpaCapacity
    /\ \E i \in DOMAIN restaurantBookings :
           RestaurantGroupSeats(restaurantBookings, i) > RestaurantCapacity

(***************************************************************************)
(* C2.  As long as no submission has inserted on an availability read that *)
(* predates another submission's insert, every spa group (service,         *)
(* calendar date, slot label) holds at most 3 bookings and every           *)
(* restaurant group (calendar date, slot label, meal period) seats at most *)
(* 50.                                                                     *)
(***************************************************************************)
SerializedWithinCapacity ==
    ~raced =>
        /\ \A i \in DOMAIN spaBookings : SpaGroupSize(spaBookings, i) <= SpaCapacity
        /\ \A i \in DOMAIN restaurantBookings :
               RestaurantGroupSeats(restaurantBookings, i) <= RestaurantCapacity

\* C2 witness: a spa booking has just been created into a group that is now
\* full, its rows stored at different times of day, while the restaurant
\* group seats 48, and no read was stale
SerializedGroupsFull ==
    /\ ~raced
    /\ \E p \in Procs :
          /\ pc[p] = "done" /\ res[p] = 201 /\ req[p].kind = "spa"
          /\ \E i, j \in DOMAIN spaBookings :
                /\ spaBookings[i].date = ParseDate(req[p].date)
                /\ spaBookings[i].time = req[p].time
                /\ SpaGroupSize(spaBookings, i) = SpaCapacity
                /\ spaBookings[j].date # spaBookings[i].date
                /\ spaBookings[j].time = spaBookings[i].time
    /\ \E i \in DOMAIN restaurantBookings :
          RestaurantGroupSeats(restaurantBookings, i) = 48

(***************************************************************************)
(* C3.  checkRoomAvailability answers true exactly when the room type      *)
(* exists and fewer than 3 stored bookings of that room type satisfy       *)
(* existingIn <= checkIn < existingOut, or existingIn < checkOut <=         *)
(* existingOut, or checkIn <= existingIn and checkOut >= existingOut;       *)
(* bookings of other room types are not counted.  A submission answered    *)
(* 409 for an existing room type found at least 3 such bookings, an        *)
(* admitted one found fewer.                                               *)
(***************************************************************************)
CountedForRoom(b, t, checkIn, checkOut) ==
    /\ b.roomTypeId = t
    /\ \/ b.checkInDate <= checkIn /\ checkIn < b.checkOutDate
       \/ b.checkInDate < checkOut /\ checkOut <= b.checkOutDate
       \/ checkIn <= b.checkInDate /\ checkOut >= b.checkOutDate

RoomsCounted(t, checkIn, checkOut) ==
    Cardinality({i \in DOMAIN roomBookings : CountedForRoom(roomBookings[i], t, checkIn, checkOut)})

RoomAvailabilityIsOverlapCount ==
    /\ \A t \in 0..(NumRoomTypes + 1), checkIn \in Instants, checkOut \in Instants :
          checkRoomAvailability(roomBookings, t, checkIn, checkOut)
            <=> (t \in 1..NumRoomTypes /\ RoomsCounted(t, checkIn, checkOut) < 3)
    /\ \A p \in Procs :
          (/\ req[p].kind = "room"
           /\ req[p].roomTypeId \in 1..NumRoomTypes
           /\ req[p].checkInDate.parses /\ req[p].checkOutDate.parses) =>
              LET n == RoomsCounted(req[p].roomTypeId,
                                    req[p].checkInDate.instant, req[p].checkOutDate.instant)
              IN  /\ pc[p] = "create" => n < 3
                  /\ (pc[p] = "done" /\ res[p] = 409) => n >= 3
                  /\ pc[p] = "done" => res[p] \in {201, 409}

\* C3 witness: a submission has been answered 409 with 3 counted bookings
\* of its room type in store next to an overlapping booking of another type
RoomRejectedAtThree ==
    \E p \in Procs :
        /\ pc[p] = "done" /\ res[p] = 409 /\ req[p].kind = "room"
        /\ req[p].roomTypeId \in 1..NumRoomTypes
        /\ RoomsCounted(req[p].roomTypeId, req[p].checkInDate.instant,
                        req[p].checkOutDate.instant) = 3
        /\ \E i \in DOMAIN roomBookings :
              /\ roomBookings[i].roomTypeId # req[p].roomTypeId
              /\ RoomOverlaps(roomBookings[i], req[p].checkInDate.instant,
                              req[p].checkOutDate.instant)

(***************************************************************************)
(* C4 (as claimed).  A candidate stay that begins exactly when a stored    *)
(* booking ends, or ends exactly when a stored booking begins, is not      *)
(* counted as overlapping that booking.                                    *)
(***************************************************************************)
TouchingStaysNotCounted ==
    \A i \in DOMAIN roomBookings, checkIn \in Instants, checkOut \in Instants :
        (/\ checkIn < checkOut
         /\ (checkIn = roomBookings[i].checkOutDate \/ checkOut = roomBookings[i].checkInDate))
            => ~RoomOverlaps(roomBookings[i], checkIn, checkOut)

(***************************************************************************)
(* C5 (as claimed).  For every candidate stay the flow can pass to the     *)
(* availability read and every stored booking, the three-way overlap test  *)
(* equals the negation of (checkOut <= existingIn or checkIn >=            *)
(* existingOut).                                                           *)
(***************************************************************************)
OverlapTestIsNegatedDisjointness ==
    \A i \in DOMAIN roomBookings, checkIn \in Instants, checkOut \in Instants :
        RoomOverlaps(roomBookings[i], checkIn, checkOut)
          <=> ~(checkOut <= roomBookings[i].checkInDate \/ checkIn >= roomBookings[i].checkOutDate)

(***************************************************************************)
(* C6 (as claimed).  A room submission whose checkOutDate is not strictly  *)
(* after its checkInDate is answered 400 before the availability read, so  *)
(* every persisted room booking has checkOutDate > checkInDate.            *)
(***************************************************************************)
RoomStayStrictlyPositive ==
    /\ \A i \in DOMAIN roomBookings :
          roomBookings[i].checkOutDate > roomBookings[i].checkInDate
    /\ \A p \in Procs :
          (/\ req[p].kind = "room"
           /\ req[p].checkInDate.parses /\ req[p].checkOutDate.parses
           /\ req[p].checkOutDate.instant <= req[p].checkInDate.instant)
              => (pc[p] = "done" /\ res[p] = 400)

(***************************************************************************)
(* C7.  checkSpaAvailability admits exactly when the service exists and    *)
(* fewer than 3 stored spa bookings have the same serviceId, the same      *)
(* calendar date and the same slot label; bookings are counted, not        *)
(* participants.  With submissions one after the other a request is        *)
(* answered 409 exactly when 3 such bookings are stored.                   *)
(***************************************************************************)
SpaSlotLabels == {"9:00 AM", "10:00 AM", "11:00 AM"}

SpaCounted(s, date, time) ==
    Cardinality({i \in DOMAIN spaBookings :
        /\ spaBookings[i].serviceId = s
        /\ spaBookings[i].date \div TicksPerDay = date \div TicksPerDay
        /\ spaBookings[i].time = time})

SpaAvailabilityIsSlotCount ==
    /\ \A s \in 0..(NumSpaServices + 1), date \in Instants, time \in SpaSlotLabels :
          checkSpaAvailability(spaBookings, s, date, time)
            <=> (s \in 1..NumSpaServices /\ SpaCounted(s, date, time) < 3)
    /\ \A p \in Procs :
          (/\ req[p].kind = "spa"
           /\ req[p].serviceId \in 1..NumSpaServices
           /\ req[p].participants > 0
           /\ req[p].date.parses) =>
              LET n == SpaCounted(req[p].serviceId, req[p].date.instant, req[p].time)
              IN  /\ pc[p] = "create" => n < 3
                  /\ (pc[p] = "done" /\ res[p] = 409) => n = 3
                  /\ (pc[p] = "done" /\ res[p] = 201) => n <= 3
                  /\ pc[p] = "done" => res[p] \in {201, 409}

\* C7 witness: the fourth request for a slot has been answered 409; the 3
\* stored bookings of the slot lie at different times of one day and hold
\* more than 3 participants, and the same slot of another day is booked too
SpaFourthRejected ==
    \E p \in Procs :
        /\ pc[p] = "done" /\ res[p] = 409 /\ req[p].kind = "spa"
        /\ req[p].serviceId \in 1..NumSpaServices
        /\ SpaCounted(req[p].serviceId, req[p].date.instant, req[p].time) = 3
        /\ \E i, j, k \in DOMAIN spaBookings :
              /\ spaBookings[i].serviceId = req[p].serviceId
              /\ spaBookings[j].serviceId = req[p].serviceId
              /\ spaBookings[k].serviceId = req[p].serviceId
              /\ spaBookings[i].time = req[p].time
              /\ spaBookings[j].time = req[p].time
              /\ spaBookings[k].time = req[p].time
              /\ spaBookings[i].date = req[p].date.instant
              /\ spaBookings[j].date # req[p].date.instant
              /\ DateOf(spaBookings[j].date) = DateOf(req[p].date.instant)
              /\ DateOf(spaBookings[k].date) # DateOf(req[p].date.instant)
              /\ spaBookings[i].participants > 1

(***************************************************************************)
(* C8.  checkRestaurantAvailability admits exactly when the party sizes of *)
(* the stored bookings with the same calendar date, slot label and meal    *)
(* period, plus the candidate's party size, sum to at most 50; bookings    *)
(* differing in one of the three keys contribute nothing.  With            *)
(* submissions one after the other a request is answered 409 exactly when  *)
(* it would push the sum over 50.                                          *)
(***************************************************************************)
RestaurantSlotLabels == {"7:00 PM", "8:00 PM"}
MealPeriods == {"breakfast", "lunch", "dinner"}

RECURSIVE SeatsTaken(_, _, _, _)
SeatsTaken(k, date, time, mealPeriod) ==
    IF k = 0 THEN 0
    ELSE SeatsTaken(k - 1, date, time, mealPeriod) +
         (IF /\ restaurantBookings[k].date \div TicksPerDay = date \div TicksPerDay
             /\ restaurantBookings[k].time = time
             /\ restaurantBookings[k].mealPeriod = mealPeriod
          THEN restaurantBookings[k].partySize ELSE 0)

RestaurantAvailabilityIsSeatSum ==
    /\ \A date \in Instants, time \in RestaurantSlotLabels, mealPeriod \in MealPeriods :
          LET n == SeatsTaken(Len(restaurantBookings), date, time, mealPeriod)
          IN  \A partySize \in {1, 5, 50, 51, 50 - n, 51 - n} :
                  partySize > 0 =>
                      (checkRestaurantAvailability(restaurantBookings, date, time,
                                                   partySize, mealPeriod)
                         <=> n + partySize <= 50)
    /\ \A p \in Procs :
          (/\ req[p].kind = "restaurant"
           /\ req[p].partySize > 0
           /\ req[p].date.parses) =>
              LET n == SeatsTaken(Len(restaurantBookings), req[p].date.instant,
                                  req[p].time, req[p].mealPeriod)
              IN  /\ pc[p] = "create" => n + req[p].partySize <= 50
                  /\ (pc[p] = "done" /\ res[p] = 409) => n + req[p].partySize > 50
                  /\ (pc[p] = "done" /\ res[p] = 201) => n <= 50
                  /\ pc[p] = "done" => res[p] \in {201, 409}

\* C8 witness: with 48 seated in the slot a party of 5 has been answered
\* 409, while a booking differing in one key is stored
RestaurantSmallPartyRejected ==
    \E p \in Procs :
        /\ pc[p] = "done" /\ res[p] = 409 /\ req[p].kind = "restaurant"
        /\ req[p].partySize = 5
        /\ SeatsTaken(Len(restaurantBookings), req[p].date.instant,
                      req[p].time, req[p].mealPeriod) = 48
        /\ \E i \in DOMAIN restaurantBookings :
              /\ DateOf(restaurantBookings[i].date) = DateOf(req[p].date.instant)
              /\ (restaurantBookings[i].time # req[p].time
                    \/ restaurantBookings[i].mealPeriod # req[p].mealPeriod)

(***************************************************************************)
(* C9 (as claimed).  A room or spa submission that passes validation but   *)
(* names a roomTypeId or serviceId without catalog entry is answered 404,  *)
(* distinct from the 409 of exhausted capacity.                            *)
(***************************************************************************)
UnknownCatalogIdNotFound ==
    \A p \in Procs :
        /\ (/\ pc[p] = "done" /\ req[p].kind = "room"
            /\ insertRoomBookingSchema(req[p])
            /\ req[p].roomTypeId \notin 1..NumRoomTypes) => res[p] = 404
        /\ (/\ pc[p] = "done" /\ req[p].kind = "spa"
            /\ insertSpaBookingSchema(req[p])
            /\ req[p].serviceId \notin 1..NumSpaServices) => res[p] = 404

(***************************************************************************)
(* C10.  In any interleaving of submissions every persisted room booking   *)
(* names an existing room type and every persisted spa booking an existing *)
(* spa service; a submission naming an unknown catalog id is never         *)
(* admitted to the insert and is not answered 201.                         *)
(***************************************************************************)
BookingsReferenceCatalog ==
    /\ \A i \in DOMAIN roomBookings : roomBookings[i].roomTypeId \in 1..NumRoomTypes
    /\ \A i \in DOMAIN spaBookings : spaBookings[i].serviceId \in 1..NumSpaServices
    /\ \A p \in Procs :
          (\/ req[p].kind = "room" /\ req[p].roomTypeId \notin 1..NumRoomTypes
           \/ req[p].kind = "spa" /\ req[p].serviceId \notin 1..NumSpaServices)
              => (pc[p] = "done" /\ res[p] # 201)

\* C10 witness: a room and a spa submission naming unknown ids have both
\* been answered while both tables hold bookings
UnknownCatalogIdsRejected ==
    /\ roomBookings # <<>> /\ spaBookings # <<>>
    /\ \E p, q \in Procs :
          /\ pc[p] = "done" /\ req[p].kind = "room" /\ req[p].roomTypeId \notin 1..NumRoomTypes
          /\ pc[q] = "done" /\ req[q].kind = "spa" /\ req[q].serviceId \notin 1..NumSpaServices

(***************************************************************************)
(* Payloads that fail validation, submitted one at a time next to valid    *)
(* ones of each kind.                                                      *)
(***************************************************************************)
ValidRoomBody == RoomBody(1, DateString(1), DateString(3))
ValidSpaBody == SpaBody(1, DateString(0), "9:00 AM", 2)
ValidRestaurantBody == RestaurantBody(DateString(0), "7:00 PM", 5, "dinner")

InvalidBodies ==
    {[ValidRoomBody EXCEPT !.missing = @ \cup {"guestName"}],
     [ValidRoomBody EXCEPT !.mistyped = {"adults"}],
     [ValidRoomBody EXCEPT !.adults = 0],
     [ValidRoomBody EXCEPT !.totalPrice = 0],
     [ValidRoomBody EXCEPT !.children = 0 - 1],
     [ValidRoomBody EXCEPT !.guestEmail = "ana.example.org"],
     [ValidRoomBody EXCEPT !.guestName = "A"],
     [ValidSpaBody EXCEPT !.participants = 0],
     [ValidSpaBody EXCEPT !.totalPrice = 0 - 5],
     [ValidSpaBody EXCEPT !.missing = @ \cup {"date"}],
     [ValidSpaBody EXCEPT !.guestName = "A"],
     [ValidRestaurantBody EXCEPT !.partySize = 0],
     [ValidRestaurantBody EXCEPT !.missing = @ \cup {"mealPeriod"}],
     [ValidRestaurantBody EXCEPT !.guestEmail = "ana.example.org"],
     [ValidRestaurantBody EXCEPT !.mistyped = {"partySize"}]}

ValidateBodies ==
    InvalidBodies \cup
      {ValidRoomBody, ValidSpaBody, ValidRestaurantBody,
       [ValidRoomBody EXCEPT !.missing = @ \cup {"children", "guestPhone"}],
       [ValidRestaurantBody EXCEPT !.mealPeriod = "brunch"]}

NextValidate ==
    \/ \E body \in ValidateBodies : RoomCheck(1, body, Anonymous)
    \/ RoomCreate(1)
    \/ \E body \in ValidateBodies : SpaCheck(1, body, Anonymous)
    \/ SpaCreate(1)
    \/ \E body \in ValidateBodies : RestaurantCheck(1, body, Anonymous)
    \/ RestaurantCreate(1)
    \/ Reply(1)

SpecValidate == Init /\ [][NextValidate]_vars

\* the violations a payload of each kind can carry
FailsValidation(body) ==
    \/ body.mistyped # {}
    \/ Len(body.guestName) < 2
    \/ ~IsEmail(body.guestEmail)
    \/ /\ body.kind = "room"
       /\ \/ body.missing \cap RoomRequired # {}
          \/ body.adults <= 0
          \/ body.totalPrice <= 0
          \/ "children" \notin body.missing /\ body.children < 0
    \/ /\ body.kind = "spa"
       /\ \/ body.missing \cap SpaRequired # {}
          \/ body.participants <= 0
          \/ body.totalPrice <= 0
    \/ /\ body.kind = "restaurant"
       /\ \/ body.missing \cap RestaurantRequired # {}
          \/ body.partySize <= 0

\* C11: a submission whose payload fails its kind's schema is answered 400
\* in the step that receives it; that step does not call the availability
\* engine, inserts no row in any table and hands nothing to the notifier.
InvalidPayloadRejected ==
    [][\A p \in Procs :
          (req'[p] # NoReq /\ FailsValidation(req'[p]))
            => /\ pc'[p] = "done"
               /\ res'[p] = 400
               /\ ~checked'[p]
               /\ booking'[p] = 0
               /\ UNCHANGED <<roomBookings, spaBookings, restaurantBookings, mail>>]_vars

\* C11 witness: with bookings of every kind stored, a room payload with
\* adults = 0 has been answered 400
InvalidRoomPayloadAnswered400 ==
    /\ pc[1] = "done"
    /\ res[1] = 400
    /\ req[1].kind = "room"
    /\ req[1].adults = 0
    /\ Len(roomBookings) > 0
    /\ Len(spaBookings) > 0
    /\ Len(restaurantBookings) > 0

\* C12: a restaurant submission whose mealPeriod is none of breakfast, lunch,
\* dinner is answered 400, and every stored restaurant booking has a
\* mealPeriod among the three.
MealPeriodEnumerated ==
    /\ \A p \in Procs :
          (pc[p] = "done" /\ req[p].kind = "restaurant" /\ req[p].mealPeriod \notin MealPeriods)
            => res[p] = 400
    /\ \A i \in DOMAIN restaurantBookings : restaurantBookings[i].mealPeriod \in MealPeriods

(***************************************************************************)
(* Reads of one booking by its id.                                         *)
(***************************************************************************)
NotFound == [status |-> "undefined"]

getRoomBookingById(id) == IF id \in DOMAIN roomBookings THEN roomBookings[id] ELSE NotFound
getSpaBookingById(id) == IF id \in DOMAIN spaBookings THEN spaBookings[id] ELSE NotFound
getRestaurantBookingById(id) ==
    IF id \in DOMAIN restaurantBookings THEN restaurantBookings[id] ELSE NotFound

\* the row the handler of process p got back from its insert
Created(p) ==
    IF req[p].kind = "room" THEN getRoomBookingById(booking[p])
    ELSE IF req[p].kind = "spa" THEN getSpaBookingById(booking[p])
    ELSE getRestaurantBookingById(booking[p])

(***************************************************************************)
(* Submissions by anonymous and signed-in callers whose payloads carry or  *)
(* omit a userId.                                                          *)
(***************************************************************************)
MaxIdentityRows == 3

IdentityBodies ==
    {ValidRoomBody, ValidSpaBody, ValidRestaurantBody}
      \cup {[b EXCEPT !.userId = 2, !.missing = @ \ {"userId"}] :
               b \in {ValidRoomBody, ValidSpaBody, ValidRestaurantBody}}

IdentityCallers == {Anonymous, SignedIn([id |-> 1, role |-> "user"])}

NextIdentity ==
    \/ /\ Len(roomBookings) + Len(spaBookings) + Len(restaurantBookings) < MaxIdentityRows
       /\ \E body \in IdentityBodies, caller \in IdentityCallers :
             \/ RoomCheck(1, body, caller)
             \/ SpaCheck(1, body, caller)
             \/ RestaurantCheck(1, body, caller)
    \/ RoomCreate(1)
    \/ SpaCreate(1)
    \/ RestaurantCreate(1)
    \/ Reply(1)

SpecIdentity == Init /\ [][NextIdentity]_vars

\* C13: the booking stored for an accepted submission carries the caller's
\* user id when the caller is signed in and null when the caller is anonymous.
StoredUserIdIsCaller ==
    \A p \in Procs :
        (pc[p] = "done" /\ res[p] = 201)
          => Created(p).userId = (IF user[p].authenticated THEN user[p].id ELSE Null)

(***************************************************************************)
(* Status lifecycle: PATCH /api/admin/<kind>-bookings/:id/status.          *)
(***************************************************************************)
BookingStatus == {"pending", "confirmed", "checked-in", "completed", "cancelled"}

\* variant: every signed-in user passes
isAdmin_anyUser(caller) == caller.authenticated

isAdmin(caller) == caller.authenticated /\ caller.role = "admin"

\* variant: status is any string
updateBookingStatusSchema_anyString(body) == "status" \notin body.missing

updateBookingStatusSchema(body) == "status" \notin body.missing /\ body.status \in BookingStatus

\* store update of one row's status; the row set is unchanged when the id is absent
updateBookingStatus(rows, id, status) ==
    IF id \in DOMAIN rows THEN [rows EXCEPT ![id].status = status] ELSE rows

StatusBody(target, id, status) ==
    [kind |-> "status", target |-> target, id |-> id, status |-> status,
     missing |-> IF status = "" THEN {"status"} ELSE {}]

TableOf(target) ==
    IF target = "room" THEN roomBookings
    ELSE IF target = "spa" THEN spaBookings
    ELSE restaurantBookings

\* variant: an absent id is answered like a stored one
PatchStatus_absentOk(p, body, caller) ==
    /\ pc[p] = "idle"
    /\ body.kind = "status"
    /\ req' = [req EXCEPT ![p] = body]
    /\ user' = [user EXCEPT ![p] = caller]
    /\ at' = [at EXCEPT ![p] = now]
    /\ pc' = [pc EXCEPT ![p] = "done"]
    /\ IF ~isAdmin(caller)
         THEN /\ res' = [res EXCEPT ![p] = 403]
              /\ UNCHANGED <<roomBookings, spaBookings, restaurantBookings>>
       ELSE IF ~updateBookingStatusSchema(body)
         THEN /\ res' = [res EXCEPT ![p] = 400]
              /\ UNCHANGED <<roomBookings, spaBookings, restaurantBookings>>
       ELSE IF body.id \notin DOMAIN TableOf(body.target)
         THEN /\ res' = [res EXCEPT ![p] = 200]
              /\ UNCHANGED <<roomBookings, spaBookings, restaurantBookings>>
       ELSE /\ res' = [res EXCEPT ![p] = 200]
            /\ roomBookings' = IF body.target = "room"
                                 THEN updateBookingStatus(roomBookings, body.id, body.status)
                                 ELSE roomBookings
            /\ spaBookings' = IF body.target = "spa"
                                THEN updateBookingStatus(spaBookings, body.id, body.status)
                                ELSE spaBookings
            /\ restaurantBookings' =
                  IF body.target = "restaurant"
                    THEN updateBookingStatus(restaurantBookings, body.id, body.status)
                    ELSE restaurantBookings
    /\ sent' = [sent EXCEPT ![p] = IF res'[p] = 200 /\ body.id \in DOMAIN TableOf(body.target)
                                    THEN Row(TableOf(body.target)', body.id)
                                  ELSE NoBody]
    /\ UNCHANGED <<booking, checked, last, mail, now, stale, raced>>

\* variant: cancelled and completed are final
PatchStatus_finalStates(p, body, caller) ==
    /\ pc[p] = "idle"
    /\ body.kind = "status"
    /\ req' = [req EXCEPT ![p] = body]
    /\ user' = [user EXCEPT ![p] = caller]
    /\ at' = [at EXCEPT ![p] = now]
    /\ pc' = [pc EXCEPT ![p] = "done"]
    /\ IF ~isAdmin(caller)
         THEN /\ res' = [res EXCEPT ![p] = 403]
              /\ UNCHANGED <<roomBookings, spaBookings, restaurantBookings>>
       ELSE IF ~updateBookingStatusSchema(body)
         THEN /\ res' = [res EXCEPT ![p] = 400]
              /\ UNCHANGED <<roomBookings, spaBookings, restaurantBookings>>
       ELSE IF body.id \notin DOMAIN TableOf(body.target)
         THEN /\ res' = [res EXCEPT ![p] = 404]
              /\ UNCHANGED <<roomBookings, spaBookings, restaurantBookings>>
       ELSE IF TableOf(body.target)[body.id].status \in {"cancelled", "completed"}
         THEN /\ res' = [res EXCEPT ![p] = 409]
              /\ UNCHANGED <<roomBookings, spaBookings, restaurantBookings>>
       ELSE /\ res' = [res EXCEPT ![p] = 200]
            /\ roomBookings' = IF body.target = "room"
                                 THEN updateBookingStatus(roomBookings, body.id, body.status)
                                 ELSE roomBookings
            /\ spaBookings' = IF body.target = "spa"
                                THEN updateBookingStatus(spaBookings, body.id, body.status)
                                ELSE spaBookings
            /\ restaurantBookings' =
                  IF body.target = "restaurant"
                    THEN updateBookingStatus(restaurantBookings, body.id, body.status)
                    ELSE restaurantBookings
    /\ sent' = [sent EXCEPT ![p] = IF res'[p] = 200 THEN Row(TableOf(body.target)', body.id)
                                  ELSE NoBody]
    /\ UNCHANGED <<booking, checked, last, mail, now, stale, raced>>

\* variant: every row of the addressed table takes the new status
PatchStatus_wholeTable(p, body, caller) ==
    /\ pc[p] = "idle"
    /\ body.kind = "status"
    /\ req' = [req EXCEPT ![p] = body]
    /\ user' = [user EXCEPT ![p] = caller]
    /\ at' = [at EXCEPT ![p] = now]
    /\ pc' = [pc EXCEPT ![p] = "done"]
    /\ IF ~isAdmin(caller)
         THEN /\ res' = [res EXCEPT ![p] = 403]
              /\ UNCHANGED <<roomBookings, spaBookings, restaurantBookings>>
       ELSE IF ~updateBookingStatusSchema(body)
         THEN /\ res' = [res EXCEPT ![p] = 400]
              /\ UNCHANGED <<roomBookings, spaBookings, restaurantBookings>>
       ELSE IF body.id \notin DOMAIN TableOf(body.target)
         THEN /\ res' = [res EXCEPT ![p] = 404]
              /\ UNCHANGED <<roomBookings, spaBookings, restaurantBookings>>
       ELSE /\ res' = [res EXCEPT ![p] = 200]
            /\ roomBookings' = IF body.target = "room"
                                 THEN [i \in DOMAIN roomBookings |->
                                          [roomBookings[i] EXCEPT !.status = body.status]]
                                 ELSE roomBookings
            /\ spaBookings' = IF body.target = "spa"
                                THEN [i \in DOMAIN spaBookings |->
                                         [spaBookings[i] EXCEPT !.status = body.status]]
                                ELSE spaBookings
            /\ restaurantBookings' =
                  IF body.target = "restaurant"
                    THEN [i \in DOMAIN restaurantBookings |->
                             [restaurantBookings[i] EXCEPT !.status = body.status]]
                    ELSE restaurantBookings
    /\ sent' = [sent EXCEPT ![p] = IF res'[p] = 200 THEN Row(TableOf(body.target)', body.id)
                                  ELSE NoBody]
    /\ UNCHANGED <<booking, checked, last, mail, now, stale, raced>>

\* variant: the id is updated in the three tables
PatchStatus_everyKind(p, body, caller) ==
    /\ pc[p] = "idle"
    /\ body.kind = "status"
    /\ req' = [req EXCEPT ![p] = body]
    /\ user' = [user EXCEPT ![p] = caller]
    /\ at' = [at EXCEPT ![p] = now]
    /\ pc' = [pc EXCEPT ![p] = "done"]
    /\ IF ~isAdmin(caller)
         THEN /\ res' = [res EXCEPT ![p] = 403]
              /\ UNCHANGED <<roomBookings, spaBookings, restaurantBookings>>
       ELSE IF ~updateBookingStatusSchema(body)
         THEN /\ res' = [res EXCEPT ![p] = 400]
              /\ UNCHANGED <<roomBookings, spaBookings, restaurantBookings>>
       ELSE IF body.id \notin DOMAIN TableOf(body.target)
         THEN /\ res' = [res EXCEPT ![p] = 404]
              /\ UNCHANGED <<roomBookings, spaBookings, restaurantBookings>>
       ELSE /\ res' = [res EXCEPT ![p] = 200]
            /\ roomBookings' = updateBookingStatus(roomBookings, body.id, body.status)
            /\ spaBookings' = updateBookingStatus(spaBookings, body.id, body.status)
            /\ restaurantBookings' =
                  updateBookingStatus(restaurantBookings, body.id, body.status)
    /\ sent' = [sent EXCEPT ![p] = IF res'[p] = 200 THEN Row(TableOf(body.target)', body.id)
                                  ELSE NoBody]
    /\ UNCHANGED <<booking, checked, last, mail, now, stale, raced>>

\* the three handlers differ only in the table they update
PatchStatus(p, body, caller) ==
    /\ pc[p] = "idle"
    /\ body.kind = "status"
    /\ req' = [req EXCEPT ![p] = body]
    /\ user' = [user EXCEPT ![p] = caller]
    /\ at' = [at EXCEPT ![p] = now]
    /\ pc' = [pc EXCEPT ![p] = "done"]
    /\ IF ~isAdmin(caller)
         THEN /\ res' = [res EXCEPT ![p] = 403]
              /\ UNCHANGED <<roomBookings, spaBookings, restaurantBookings>>
       ELSE IF ~updateBookingStatusSchema(body)
         THEN /\ res' = [res EXCEPT ![p] = 400]
              /\ UNCHANGED <<roomBookings, spaBookings, restaurantBookings>>
       ELSE IF body.id \notin DOMAIN TableOf(body.target)
         THEN /\ res' = [res EXCEPT ![p] = 404]
              /\ UNCHANGED <<roomBookings, spaBookings, restaurantBookings>>
       ELSE /\ res' = [res EXCEPT ![p] = 200]
            /\ roomBookings' = IF body.target = "room"
                                 THEN updateBookingStatus(roomBookings, body.id, body.status)
                                 ELSE roomBookings
            /\ spaBookings' = IF body.target = "spa"
                                THEN updateBookingStatus(spaBookings, body.id, body.status)
                                ELSE spaBookings
            /\ restaurantBookings' =
                  IF body.target = "restaurant"
                    THEN updateBookingStatus(restaurantBookings, body.id, body.status)
                    ELSE restaurantBookings
    /\ sent' = [sent EXCEPT ![p] = IF res'[p] = 200 THEN Row(TableOf(body.target)', body.id)
                                  ELSE NoBody]
    /\ UNCHANGED <<booking, checked, last, mail, now, stale, raced>>

PatchRoomBookingStatus(p, body, caller) == body.target = "room" /\ PatchStatus(p, body, caller)
PatchSpaBookingStatus(p, body, caller) == body.target = "spa" /\ PatchStatus(p, body, caller)
PatchRestaurantBookingStatus(p, body, caller) ==
    body.target = "restaurant" /\ PatchStatus(p, body, caller)

MaxAdminRows == 2

WithStatus(b, s) == [b EXCEPT !.status = s, !.missing = @ \ {"status"}]

AdminBodies ==
    {ValidRoomBody, ValidSpaBody, ValidRestaurantBody,
     WithStatus(ValidRoomBody, "pending"), WithStatus(ValidSpaBody, "pending"),
     WithStatus(ValidRestaurantBody, "pending")}

StatusBodies ==
    {StatusBody(t, id, s) : t \in {"room", "spa", "restaurant"}, id \in 1..2,
                            s \in {"pending", "cancelled", "archived", ""}}

NextAdmin ==
    \/ /\ Len(roomBookings) + Len(spaBookings) + Len(restaurantBookings) < MaxAdminRows
       /\ \E body \in AdminBodies :
             \/ RoomCheck(1, body, Anonymous)
             \/ SpaCheck(1, body, Anonymous)
             \/ RestaurantCheck(1, body, Anonymous)
    \/ RoomCreate(1)
    \/ SpaCreate(1)
    \/ RestaurantCreate(1)
    \/ \E body \in StatusBodies, caller \in Callers :
          \/ PatchRoomBookingStatus(1, body, caller)
          \/ PatchSpaBookingStatus(1, body, caller)
          \/ PatchRestaurantBookingStatus(1, body, caller)
    \/ Reply(1)

SpecAdmin == Init /\ [][NextAdmin]_vars

Tables == <<roomBookings, spaBookings, restaurantBookings>>

\* C14: every row a step adds to one of the three tables has status
\* confirmed, whatever the payload carries, and a step after which a stored
\* row is pending while it was not before is a status update answered 200
\* to an administrator.
NewBookingsConfirmed ==
    [][\A k \in 1..3 :
          /\ Len(Tables'[k]) > Len(Tables[k])
               => \A i \in (Len(Tables[k]) + 1)..Len(Tables'[k]) :
                     Tables'[k][i].status = "confirmed"
          /\ \A i \in DOMAIN Tables'[k] :
               (Tables'[k][i].status = "pending"
                  /\ (i \notin DOMAIN Tables[k] \/ Tables[k][i].status # "pending"))
                 => \E p \in Procs :
                       /\ pc[p] = "idle"
                       /\ req'[p].kind = "status"
                       /\ res'[p] = 200
                       /\ isAdmin(user'[p])]_vars

\* C14 witness: a payload carrying status pending was stored as confirmed,
\* and another stored booking was made pending by an administrator
PendingOnlyByAdmin ==
    /\ pc[1] = "done"
    /\ res[1] = 201
    /\ "status" \notin req[1].missing
    /\ req[1].status = "pending"
    /\ Created(1).status = "confirmed"
    /\ \E k \in 1..3 : \E i \in DOMAIN Tables[k] : Tables[k][i].status = "pending"

\* C19: a status update sent by an anonymous caller or by a signed-in caller
\* who is not an administrator is answered 403 and changes no booking.
StatusUpdateNeedsAdmin ==
    [][\A p \in Procs :
          (pc[p] = "idle" /\ req'[p].kind = "status" /\ ~(user'[p].authenticated
                                                           /\ user'[p].role = "admin"))
            => /\ res'[p] = 403
               /\ UNCHANGED <<roomBookings, spaBookings, restaurantBookings>>]_vars

\* C19 witness: a signed-in non-administrator asked to cancel a stored room
\* booking and got 403
NonAdminForbidden ==
    /\ pc[1] = "done"
    /\ req[1].kind = "status"
    /\ req[1].target = "room"
    /\ req[1].id \in DOMAIN roomBookings
    /\ req[1].status = "cancelled"
    /\ user[1].authenticated
    /\ user[1].role = "user"
    /\ res[1] = 403

\* C20: a status update whose new status is none of the five values is
\* answered 400 to an administrator and changes no booking, and every stored
\* booking of every kind has one of the five values as its status.
StatusStaysEnumerated ==
    [][/\ \A p \in Procs :
            (pc[p] = "idle" /\ req'[p].kind = "status" /\ isAdmin(user'[p])
               /\ ("status" \in req'[p].missing \/ req'[p].status \notin BookingStatus))
              => /\ res'[p] = 400
                 /\ UNCHANGED <<roomBookings, spaBookings, restaurantBookings>>
       /\ \A k \in 1..3 : \A i \in DOMAIN Tables'[k] : Tables'[k][i].status \in BookingStatus]_vars

\* C20 witness: an administrator sent the status archived for a stored
\* restaurant booking that had been cancelled before, and got 400
InvalidStatusAnswered400 ==
    /\ pc[1] = "done"
    /\ req[1].kind = "status"
    /\ req[1].target = "restaurant"
    /\ req[1].id \in DOMAIN restaurantBookings
    /\ req[1].status = "archived"
    /\ isAdmin(user[1])
    /\ res[1] = 400
    /\ restaurantBookings[req[1].id].status = "cancelled"

(***************************************************************************)
(* Round trips: submissions of varied content, by anonymous and signed-in  *)
(* callers, while the clock advances.                                      *)
(***************************************************************************)
MaxClock == 2
MaxRoundTripRows == 2

Tick ==
    /\ now < MaxClock
    /\ now' = now + 1
    /\ UNCHANGED <<roomBookings, spaBookings, restaurantBookings, pc, req, res, user,
                   booking, at, checked, last, mail, stale, raced,
                   sent>>

\* a second guest: owner id in the payload, dates with an offset, optional
\* fields omitted
OtherGuest(b) ==
    [b EXCEPT !.userId = 2, !.guestName = "Ben", !.guestEmail = "ben@example.org",
              !.missing = (@ \ {"userId"}) \cup {"guestPhone", "specialRequests"}]

RoundTripBodies ==
    {ValidRoomBody, ValidSpaBody, ValidRestaurantBody,
     [OtherGuest(ValidRoomBody) EXCEPT !.checkInDate = OffsetDateString(1),
                                       !.checkOutDate = OffsetDateString(2),
                                       !.missing = @ \cup {"children"}],
     [OtherGuest(ValidSpaBody) EXCEPT !.date = OffsetDateString(1)],
     [OtherGuest(ValidRestaurantBody) EXCEPT !.date = OffsetDateString(1)]}

NextRoundTrip ==
    \/ /\ Len(roomBookings) + Len(spaBookings) + Len(restaurantBookings) < MaxRoundTripRows
       /\ \E body \in RoundTripBodies, caller \in IdentityCallers :
             \/ RoomCheck(1, body, caller)
             \/ SpaCheck(1, body, caller)
             \/ RestaurantCheck(1, body, caller)
    \/ RoomCreate(1)
    \/ SpaCreate(1)
    \/ RestaurantCreate(1)
    \/ Reply(1)
    \/ Tick

SpecRoundTrip == Init /\ [][NextRoundTrip]_vars

\* the payload keys of each kind other than its dates and userId
PlainFields(kind) ==
    IF kind = "room"
      THEN {"roomTypeId", "guestName", "guestEmail", "guestPhone", "adults", "children",
            "specialRequests", "totalPrice"}
    ELSE IF kind = "spa"
      THEN {"serviceId", "guestName", "guestEmail", "guestPhone", "time", "participants",
            "specialRequests", "totalPrice"}
    ELSE {"guestName", "guestEmail", "guestPhone", "time", "partySize", "mealPeriod",
          "specialRequests"}

DateFields(kind) == IF kind = "room" THEN {"checkInDate", "checkOutDate"} ELSE {"date"}

\* every submitted plain field comes back equal; id, status and creation time
PlainFieldsKept(p) ==
    /\ \A f \in PlainFields(req[p].kind) \ req[p].missing : Created(p)[f] = req[p][f]
    /\ booking[p] >= 1
    /\ Created(p).status = "confirmed"
    /\ Created(p).createdAt >= at[p]

\* C15: a booking answered 201 and fetched by id has every submitted field,
\* dates and userId included, equal to the submitted value, an id, status
\* confirmed and a creation time not before the submission.
RoundTripUnchanged ==
    \A p \in Procs :
        (pc[p] = "done" /\ res[p] = 201)
          => /\ PlainFieldsKept(p)
             /\ \A f \in DateFields(req[p].kind) : DateToJSON(Created(p)[f]) = req[p][f]
             /\ "userId" \notin req[p].missing => Created(p).userId = req[p].userId

\* C15 amended: the plain fields come back equal; each date comes back as
\* the instant its submitted string denotes; userId comes back as the
\* caller's id when the caller is signed in and as submitted otherwise.
RoundTripUpToDatesAndOwner ==
    \A p \in Procs :
        (pc[p] = "done" /\ res[p] = 201)
          => /\ PlainFieldsKept(p)
             /\ \A f \in DateFields(req[p].kind) : Created(p)[f] = req[p][f].instant
             /\ user[p].authenticated => Created(p).userId = user[p].id
             /\ (~user[p].authenticated /\ "userId" \notin req[p].missing)
                  => Created(p).userId = req[p].userId

\* C15 witness: a signed-in caller's room booking with an owner id in the
\* payload and dates with an offset was stored after the clock had advanced
RoundTripOfStampedBooking ==
    /\ pc[1] = "done"
    /\ res[1] = 201
    /\ req[1].kind = "room"
    /\ user[1].authenticated
    /\ req[1].userId = 2
    /\ req[1].checkInDate.form = "offset"
    /\ getRoomBookingById(booking[1]).createdAt > at[1]

(***************************************************************************)
(* A client that sends the request it has just been answered once more,    *)
(* with nothing in between.                                                *)
(***************************************************************************)
Resubmit(p) ==
    /\ pc[p] = "done"
    /\ req[p].kind \in {"room", "spa", "restaurant"}
    /\ last' = [last EXCEPT ![p] = [res |-> res[p], booking |-> booking[p]]]
    /\ pc' = [pc EXCEPT ![p] = "again"]
    /\ res' = [res EXCEPT ![p] = 0]
    /\ booking' = [booking EXCEPT ![p] = 0]
    /\ checked' = [checked EXCEPT ![p] = FALSE]
    /\ sent' = [sent EXCEPT ![p] = NoBody]
    /\ UNCHANGED <<roomBookings, spaBookings, restaurantBookings, req, user, at, mail, now,
                   stale, raced>>

RepeatBodies ==
    {ValidRoomBody, ValidSpaBody,
     RestaurantBody(DateString(0), "7:00 PM", 24, "dinner"),
     RoomBody(NumRoomTypes + 1, DateString(1), DateString(3)),
     RoomBody(2, BadDateString, DateString(3)),
     [ValidSpaBody EXCEPT !.participants = 0]}

NextRepeat ==
    \/ \E body \in RepeatBodies :
          \/ RoomCheck(1, body, Anonymous)
          \/ SpaCheck(1, body, Anonymous)
          \/ RestaurantCheck(1, body, Anonymous)
    \/ RoomCreate(1)
    \/ SpaCreate(1)
    \/ RestaurantCreate(1)
    \/ Resubmit(1)
    \/ Reply(1)

SpecRepeat == Init /\ [][NextRepeat]_vars

\* the stored row of id `id` in the table of process p's request
Stored(p, id) ==
    IF req[p].kind = "room" THEN getRoomBookingById(id)
    ELSE IF req[p].kind = "spa" THEN getSpaBookingById(id)
    ELSE getRestaurantBookingById(id)

SameContent(a, b) ==
    /\ a # NotFound
    /\ b # NotFound
    /\ [a EXCEPT !.createdAt = 0] = [b EXCEPT !.createdAt = 0]

\* the availability engine's verdict on a valid payload against the stored rows
Available(body) ==
    IF body.kind = "room"
      THEN checkRoomAvailability(roomBookings, body.roomTypeId, ParseDate(body.checkInDate),
                                 ParseDate(body.checkOutDate))
    ELSE IF body.kind = "spa"
      THEN checkSpaAvailability(spaBookings, body.serviceId, ParseDate(body.date), body.time)
    ELSE checkRestaurantAvailability(restaurantBookings, ParseDate(body.date), body.time,
                                     body.partySize, body.mealPeriod)

\* the answer to a request that repeats the one answered just before
RepeatAnswered(p) ==
    /\ last[p].res # 201 => (res[p] = last[p].res /\ booking[p] = 0)
    /\ last[p].res = 201
         => /\ res[p] \in {201, 409}
            /\ res[p] = 409 => ~Available(req[p])
            /\ res[p] = 201 => /\ booking[p] # last[p].booking
                               /\ SameContent(Stored(p, booking[p]), Stored(p, last[p].booking))

\* C16: while a rejected request is sent again no table changes and it gets
\* the same rejection; an accepted request sent again is answered 201 or,
\* only when the store has no capacity left for it, 409, and when it is answered 201 a second row
\* with another id and the same content is stored.
RepeatedRequests ==
    [][\A p \in Procs :
          /\ (pc[p] = "again" /\ last[p].res # 201)
               => UNCHANGED <<roomBookings, spaBookings, restaurantBookings>>
          /\ (pc'[p] = "done" /\ last'[p].res # 0) => RepeatAnswered(p)']_vars

\* C16 witness: a repeated room request was accepted twice and two rows of
\* the same content are stored under different ids
SecondBookingOfSameContent ==
    /\ pc[1] = "done"
    /\ last[1].res = 201
    /\ res[1] = 201
    /\ req[1].kind = "room"
    /\ booking[1] # last[1].booking
    /\ SameContent(roomBookings[booking[1]], roomBookings[last[1].booking])

(***************************************************************************)
(* The notifier.  sendEmail resolves true when the mail service accepted   *)
(* the message and false when the key is missing or the send threw; the    *)
(* handler does not await it.                                              *)
(***************************************************************************)
sendEmail(entry, outcome) ==
    /\ entry \in BagToSet(mail)
    /\ entry.state = "pending"
    /\ outcome \in {"sent", "failed"}
    /\ mail' = (mail (-) SetToBag({entry})) (+) SetToBag({[entry EXCEPT !.state = outcome]})
    /\ UNCHANGED <<roomBookings, spaBookings, restaurantBookings, pc, req, res, user,
                   booking, at, checked, last, now, stale, raced,
                   sent>>

MaxNotifyRows == 2

NotifyBodies ==
    {ValidRoomBody, ValidSpaBody, ValidRestaurantBody,
     [ValidRestaurantBody EXCEPT !.partySize = 0]}

NextNotify ==
    \/ \E p \in Procs :
          \/ /\ Len(roomBookings) + Len(spaBookings) + Len(restaurantBookings)
                  + Cardinality({q \in Procs : pc[q] = "create"}) < MaxNotifyRows
             /\ \E body \in NotifyBodies :
                   \/ RoomCheck(p, body, Anonymous)
                   \/ SpaCheck(p, body, Anonymous)
                   \/ RestaurantCheck(p, body, Anonymous)
          \/ RoomCreate(p)
          \/ SpaCreate(p)
          \/ RestaurantCreate(p)
          \/ Reply(p)
    \/ \E entry \in BagToSet(mail), outcome \in {"sent", "failed"} : sendEmail(entry, outcome)

SpecNotify == Init /\ [][NextNotify]_vars

\* how many times the notifier was called for booking `id` of kind `kind`
Attempts(kind, id) ==
    BagCardinality([e \in {x \in BagToSet(mail) : x.kind = kind /\ x.id = id}
                       |-> CopiesIn(e, mail)])

\* C17: after every step each message handed to the notifier is for a stored
\* row of its kind and no booking has more than one; a step that answers a
\* submission with a rejection hands over nothing; a step in which a message
\* fails leaves the tables, the responses and the handlers where they were.
NotifierAfterPersistOnceOnly ==
    [][/\ \A e \in BagToSet(mail') : e.id \in DOMAIN TableOf(e.kind)'
       /\ \A kind \in {"room", "spa", "restaurant"} :
             \A id \in DOMAIN TableOf(kind)' : Attempts(kind, id)' <= 1
       /\ \A p \in Procs :
             (pc[p] # "done" /\ pc'[p] = "done" /\ res'[p] # 201) => mail' = mail
       /\ (\E e \in BagToSet(mail') : e.state = "failed" /\ e \notin BagToSet(mail))
             => UNCHANGED <<roomBookings, spaBookings, restaurantBookings, res, pc, booking>>]_vars

\* C17 witness: the message for a stored, confirmed room booking has failed
\* while its handler still holds the 201 response
FailedMailKeepsBooking ==
    \E p \in Procs :
        /\ pc[p] = "done"
        /\ res[p] = 201
        /\ req[p].kind = "room"
        /\ roomBookings[booking[p]].status = "confirmed"
        /\ [kind |-> "room", id |-> booking[p], to |-> req[p].guestEmail, state |-> "failed"]
             \in BagToSet(mail)

(***************************************************************************)
(* Store failures.  Every awaited store call of a handler may reject (the  *)
(* pool cannot reach the database, the query throws); the handler's catch  *)
(* answers 500.                                                            *)
(***************************************************************************)
PassesSchema(body) ==
    IF body.kind = "room" THEN insertRoomBookingSchema(body)
    ELSE IF body.kind = "spa" THEN insertSpaBookingSchema(body)
    ELSE insertRestaurantBookingSchema(body)

\* the availability read throws
CheckFails(p, body, caller) ==
    /\ Receives(p, body, caller)
    /\ body.kind \in {"room", "spa", "restaurant"}
    /\ PassesSchema(body)
    /\ req' = [req EXCEPT ![p] = body]
    /\ user' = [user EXCEPT ![p] = caller]
    /\ at' = [at EXCEPT ![p] = now]
    /\ checked' = [checked EXCEPT ![p] = TRUE]
    /\ pc' = [pc EXCEPT ![p] = "done"]
    /\ res' = [res EXCEPT ![p] = 500]
    /\ UNCHANGED <<roomBookings, spaBookings, restaurantBookings, booking, last, mail,
                   now, stale, raced,
                   sent>>

\* the insert throws
InsertFails(p) ==
    /\ pc[p] = "create"
    /\ pc' = [pc EXCEPT ![p] = "done"]
    /\ res' = [res EXCEPT ![p] = 500]
    /\ stale' = stale \ {p}
    /\ UNCHANGED <<roomBookings, spaBookings, restaurantBookings, req, user, booking, at,
                   checked, last, mail, now, raced,
                   sent>>

\* POST /api/room-bookings: the insert succeeds, then getRoomTypeById throws
RoomLookupFails(p) ==
    /\ pc[p] = "create"
    /\ req[p].kind = "room"
    /\ roomBookings' = createRoomBooking(roomBookings, RoomBookingData(req[p], user[p]))
    /\ booking' = [booking EXCEPT ![p] = Len(roomBookings) + 1]
    /\ pc' = [pc EXCEPT ![p] = "done"]
    /\ res' = [res EXCEPT ![p] = 500]
    /\ raced' = (raced \/ p \in stale)
    /\ stale' = (stale \cup (InFlight("room") \ {p})) \ {p}
    /\ UNCHANGED <<spaBookings, restaurantBookings, req, user, at, checked, last, mail, now,
                   sent>>

\* POST /api/spa-bookings: the insert succeeds, then getSpaServiceById throws
SpaLookupFails(p) ==
    /\ pc[p] = "create"
    /\ req[p].kind = "spa"
    /\ spaBookings' = createSpaBooking(spaBookings, SpaBookingData(req[p], user[p]))
    /\ booking' = [booking EXCEPT ![p] = Len(spaBookings) + 1]
    /\ pc' = [pc EXCEPT ![p] = "done"]
    /\ res' = [res EXCEPT ![p] = 500]
    /\ raced' = (raced \/ p \in stale)
    /\ stale' = (stale \cup (InFlight("spa") \ {p})) \ {p}
    /\ UNCHANGED <<roomBookings, restaurantBookings, req, user, at, checked, last, mail, now,
                   sent>>

MaxFailRows == 3

FailBodies == {ValidRoomBody, ValidSpaBody, ValidRestaurantBody}

NextFail ==
    \/ /\ Len(roomBookings) + Len(spaBookings) + Len(restaurantBookings) < MaxFailRows
       /\ \E body \in FailBodies :
             \/ RoomCheck(1, body, Anonymous)
             \/ SpaCheck(1, body, Anonymous)
             \/ RestaurantCheck(1, body, Anonymous)
             \/ CheckFails(1, body, Anonymous)
    \/ RoomCreate(1)
    \/ SpaCreate(1)
    \/ RestaurantCreate(1)
    \/ InsertFails(1)
    \/ RoomLookupFails(1)
    \/ SpaLookupFails(1)
    \/ Reply(1)

SpecFail == Init /\ [][NextFail]_vars

\* C18: the step that answers a validated submission either answers 201 and
\* adds exactly one row to the tables, or answers an error and adds none.
ValidatedSubmissionAtomic ==
    [][\A p \in Procs :
          (pc[p] # "done" /\ pc'[p] = "done" /\ PassesSchema(req'[p]))
            => LET before == Len(roomBookings) + Len(spaBookings) + Len(restaurantBookings)
                   after == Len(roomBookings') + Len(spaBookings') + Len(restaurantBookings')
               IN  IF res'[p] = 201 THEN after = before + 1 ELSE after = before]_vars

\* C21: a status update by an administrator with a valid status whose id is
\* not in the addressed table is answered 404, and the step leaves the three
\* tables as they were.
AbsentIdNotFound ==
    [][\A p \in Procs :
          (pc[p] = "idle" /\ req'[p].kind = "status" /\ isAdmin(user'[p])
             /\ "status" \notin req'[p].missing /\ req'[p].status \in BookingStatus
             /\ req'[p].id \notin DOMAIN TableOf(req'[p].target))
            => /\ res'[p] = 404
               /\ UNCHANGED <<roomBookings, spaBookings, restaurantBookings>>]_vars

\* C21 witness: an administrator sent cancelled for spa booking 2 while the
\* spa table holds one row, and got 404
AbsentSpaBookingAnswered404 ==
    /\ pc[1] = "done"
    /\ req[1].kind = "status"
    /\ req[1].target = "spa"
    /\ req[1].id = 2
    /\ req[1].status = "cancelled"
    /\ isAdmin(user[1])
    /\ Len(spaBookings) = 1
    /\ res[1] = 404

(***************************************************************************)
(* Status lifecycle under concurrent administrators.                       *)
(***************************************************************************)
MaxLifecycleRows == 1

Admin == SignedIn(CHOOSE u \in users : u.role = "admin")

LifecycleStatusBodies ==
    {StatusBody(t, 1, s) : t \in {"room", "spa", "restaurant"},
                           s \in {"pending", "cancelled", "completed"}}

NextLifecycle ==
    \E p \in Procs :
        \/ /\ Len(roomBookings) + Len(spaBookings) + Len(restaurantBookings)
                + Cardinality({q \in Procs : pc[q] = "create"}) < MaxLifecycleRows
           /\ \E body \in FailBodies :
                 \/ RoomCheck(p, body, Anonymous)
                 \/ SpaCheck(p, body, Anonymous)
                 \/ RestaurantCheck(p, body, Anonymous)
        \/ RoomCreate(p)
        \/ SpaCreate(p)
        \/ RestaurantCreate(p)
        \/ \E body \in LifecycleStatusBodies :
              \/ PatchRoomBookingStatus(p, body, Admin)
              \/ PatchSpaBookingStatus(p, body, Admin)
              \/ PatchRestaurantBookingStatus(p, body, Admin)
        \/ Reply(p)

SpecLifecycle == Init /\ [][NextLifecycle]_vars

\* the addressed table after the step
TableOfNext(target) ==
    IF target = "room" THEN roomBookings'
    ELSE IF target = "spa" THEN spaBookings'
    ELSE restaurantBookings'

\* C22: a status update by an administrator with one of the five statuses,
\* addressed to a stored booking, is answered 200 whatever the booking's
\* current status; the row then has the new status and the response is the
\* row as it was with the new status.
AnyStatusToAnyStatus ==
    [][\A p \in Procs :
          (pc[p] = "idle" /\ req'[p].kind = "status" /\ isAdmin(user'[p])
             /\ "status" \notin req'[p].missing /\ req'[p].status \in BookingStatus
             /\ req'[p].id \in DOMAIN TableOf(req'[p].target))
            => LET t == req'[p].target
                   id == req'[p].id
               IN  /\ res'[p] = 200
                   /\ TableOfNext(t)[id].status = req'[p].status
                   /\ sent'[p] = [Row(TableOf(t), id) EXCEPT !.status = req'[p].status]]_vars

\* C22 witness: one administrator's request got a room booking back as
\* cancelled, another's then got the same booking back as completed, and
\* the stored row is completed
CancelledThenCompleted ==
    \E p, q \in Procs :
        /\ p # q
        /\ pc[p] = "done" /\ pc[q] = "done"
        /\ req[p] = StatusBody("room", 1, "cancelled")
        /\ req[q] = StatusBody("room", 1, "completed")
        /\ res[p] = 200 /\ res[q] = 200
        /\ sent[p].status = "cancelled"
        /\ sent[q].status = "completed"
        /\ roomBookings[1].status = "completed"

(***************************************************************************)
(* Read-only endpoints.  A query is a record like a payload: its keys are  *)
(* the query-string parameters, `missing` names those not sent.  Every     *)
(* read-only handler leaves the tables, the notifier and the clock alone.  *)
(***************************************************************************)
Answer(p, request, caller, status, json) ==
    /\ pc[p] = "idle"
    /\ req' = [req EXCEPT ![p] = request]
    /\ user' = [user EXCEPT ![p] = caller]
    /\ at' = [at EXCEPT ![p] = now]
    /\ pc' = [pc EXCEPT ![p] = "done"]
    /\ res' = [res EXCEPT ![p] = status]
    /\ sent' = [sent EXCEPT ![p] = json]
    /\ UNCHANGED <<roomBookings, spaBookings, restaurantBookings, booking, checked, last,
                   mail, now, stale, raced>>

\* new Date(req.query.x): Invalid Date when the parameter is absent
QueryDate(q, f) == IF f \in q.missing THEN NaN ELSE ParseDate(q[f])

\* !req.query.x
Blank(q, f) == f \in q.missing \/ q[f] = ""

\* what GET /api/room-availability answers to query q
RoomAvailabilityResponse(q) ==
    LET checkIn == QueryDate(q, "checkInDate")
        checkOut == QueryDate(q, "checkOutDate")
    IN  IF "roomTypeId" \in q.missing \/ checkIn = NaN \/ checkOut = NaN
          THEN [status |-> 400, json |-> NoBody]
          ELSE [status |-> 200,
                json |-> [available |-> checkRoomAvailability(roomBookings, q.roomTypeId,
                                                              checkIn, checkOut)]]

\* what GET /api/spa-availability answers to query q
SpaAvailabilityResponse(q) ==
    LET date == QueryDate(q, "date")
    IN  IF "serviceId" \in q.missing \/ date = NaN \/ Blank(q, "time")
          THEN [status |-> 400, json |-> NoBody]
          ELSE [status |-> 200,
                json |-> [available |-> checkSpaAvailability(spaBookings, q.serviceId, date,
                                                             q.time)]]

\* what GET /api/restaurant-availability answers to query q
RestaurantAvailabilityResponse(q) ==
    LET date == QueryDate(q, "date")
    IN  IF date = NaN \/ Blank(q, "time") \/ "partySize" \in q.missing
             \/ Blank(q, "mealPeriod")
          THEN [status |-> 400, json |-> NoBody]
          ELSE [status |-> 200,
                json |-> [available |-> checkRestaurantAvailability(restaurantBookings, date,
                                             q.time, q.partySize, q.mealPeriod)]]

\* GET /api/room-availability
RoomAvailability(p, q) ==
    /\ q.kind = "room"
    /\ Answer(p, [q EXCEPT !.kind = "room-availability"], Anonymous,
              RoomAvailabilityResponse(q).status, RoomAvailabilityResponse(q).json)

\* GET /api/spa-availability
SpaAvailability(p, q) ==
    /\ q.kind = "spa"
    /\ Answer(p, [q EXCEPT !.kind = "spa-availability"], Anonymous,
              SpaAvailabilityResponse(q).status, SpaAvailabilityResponse(q).json)

\* GET /api/restaurant-availability
RestaurantAvailability(p, q) ==
    /\ q.kind = "restaurant"
    /\ Answer(p, [q EXCEPT !.kind = "restaurant-availability"], Anonymous,
              RestaurantAvailabilityResponse(q).status, RestaurantAvailabilityResponse(q).json)

\* variant: the caller's rows, oldest date first
OrderedByDateDesc_ascending(rows, userId, dateField) ==
    LET ids == {i \in DOMAIN rows : rows[i].userId = userId}
        n == Cardinality(ids)
    IN  {order \in [1..n -> ids] :
            /\ \A i, j \in 1..n : i # j => order[i] # order[j]
            /\ \A i, j \in 1..n : i < j => rows[order[i]][dateField] <= rows[order[j]][dateField]}

\* the orders in which SELECT ... WHERE user_id = userId ORDER BY <date> DESC
\* can return its rows: rows of equal date come in any order
OrderedByDateDesc(rows, userId, dateField) ==
    LET ids == {i \in DOMAIN rows : rows[i].userId = userId}
        n == Cardinality(ids)
    IN  {order \in [1..n -> ids] :
            /\ \A i, j \in 1..n : i # j => order[i] # order[j]
            /\ \A i, j \in 1..n : i < j => rows[order[i]][dateField] >= rows[order[j]][dateField]}

getUserRoomBookings(userId) ==
    {[k \in DOMAIN order |-> Row(roomBookings, order[k])] :
        order \in OrderedByDateDesc(roomBookings, userId, "checkInDate")}

getUserSpaBookings(userId) ==
    {[k \in DOMAIN order |-> Row(spaBookings, order[k])] :
        order \in OrderedByDateDesc(spaBookings, userId, "date")}

getUserRestaurantBookings(userId) ==
    {[k \in DOMAIN order |-> Row(restaurantBookings, order[k])] :
        order \in OrderedByDateDesc(restaurantBookings, userId, "date")}

isAuthenticated(caller) == caller.authenticated

\* GET /api/my/room-bookings
MyRoomBookings(p, caller) ==
    IF ~isAuthenticated(caller)
      THEN Answer(p, [kind |-> "my-room-bookings"], caller, 401, NoBody)
      ELSE \E list \in getUserRoomBookings(caller.id) :
              Answer(p, [kind |-> "my-room-bookings"], caller, 200, list)

\* GET /api/my/spa-bookings
MySpaBookings(p, caller) ==
    IF ~isAuthenticated(caller)
      THEN Answer(p, [kind |-> "my-spa-bookings"], caller, 401, NoBody)
      ELSE \E list \in getUserSpaBookings(caller.id) :
              Answer(p, [kind |-> "my-spa-bookings"], caller, 200, list)

\* GET /api/my/restaurant-bookings
MyRestaurantBookings(p, caller) ==
    IF ~isAuthenticated(caller)
      THEN Answer(p, [kind |-> "my-restaurant-bookings"], caller, 401, NoBody)
      ELSE \E list \in getUserRestaurantBookings(caller.id) :
              Answer(p, [kind |-> "my-restaurant-bookings"], caller, 200, list)

\* users.find(u => u.id === booking.userId), or nothing for a guest booking
OwnerOf(row) ==
    IF row.userId = Null THEN {} ELSE {u \in users : u.id = row.userId}

\* a || b || c of JavaScript over texts: the first that is neither null nor empty
Falsy(x) == x \in {NullText, ""}
FirstTruthy(a, b, c) == IF ~Falsy(a) THEN a ELSE IF ~Falsy(b) THEN b ELSE c

\* variant: the phone shown is the owner's whenever an owner is found
DisplayFields_ownerPhone(row) ==
    LET owner == OwnerOf(row)
        u == CHOOSE x \in owner : TRUE
    IN  IF owner = {}
          THEN [userFullName |-> row.guestName,
                userEmail    |-> row.guestEmail,
                userPhone    |-> FirstTruthy(row.guestPhone, "", "")]
          ELSE [userFullName |-> FirstTruthy(u.fullName, row.guestName, row.guestName),
                userEmail    |-> FirstTruthy(u.email, row.guestEmail, row.guestEmail),
                userPhone    |-> FirstTruthy(u.phone, "", "")]

\* userFullName, userEmail, userPhone of one entry of the aggregate
DisplayFields(row) ==
    LET owner == OwnerOf(row)
        u == CHOOSE x \in owner : TRUE
    IN  IF owner = {}
          THEN [userFullName |-> row.guestName,
                userEmail    |-> row.guestEmail,
                userPhone    |-> FirstTruthy(row.guestPhone, "", "")]
          ELSE [userFullName |-> FirstTruthy(u.fullName, row.guestName, row.guestName),
                userEmail    |-> FirstTruthy(u.email, row.guestEmail, row.guestEmail),
                userPhone    |-> FirstTruthy(u.phone, row.guestPhone, "")]

Entry(bookingType, rows, id) ==
    [id |-> id, userId |-> rows[id].userId, bookingType |-> bookingType,
     status |-> rows[id].status] @@ DisplayFields(rows[id])

allBookings ==
    [i \in DOMAIN roomBookings |-> Entry("room", roomBookings, i)]
      \o [i \in DOMAIN spaBookings |-> Entry("spa", spaBookings, i)]
      \o [i \in DOMAIN restaurantBookings |-> Entry("restaurant", restaurantBookings, i)]

\* GET /api/admin/bookings
AdminBookings(p, caller) ==
    IF ~isAdmin(caller)
      THEN Answer(p, [kind |-> "admin-bookings"], caller, 403, NoBody)
      ELSE Answer(p, [kind |-> "admin-bookings"], caller, 200, allBookings)

(***************************************************************************)
(* Every endpoint, one request at a time: bookings by guests, by guests    *)
(* naming an owner, and by signed-in users, on two dates.                  *)
(***************************************************************************)
MaxReadRows == 2

ReadBodies ==
    {ValidRoomBody, ValidSpaBody, ValidRestaurantBody,
     [ValidRoomBody EXCEPT !.checkInDate = DateString(2), !.missing = @ \cup {"guestPhone"}],
     [ValidSpaBody EXCEPT !.date = DateString(2), !.userId = 3, !.missing = @ \ {"userId"}],
     [ValidRestaurantBody EXCEPT !.date = DateString(2), !.userId = 2,
                                 !.missing = @ \ {"userId"}]}

ReadStatusBodies ==
    {StatusBody(t, id, "cancelled") : t \in {"room", "spa", "restaurant"}, id \in 1..2}

NextRead ==
    \/ /\ Len(roomBookings) + Len(spaBookings) + Len(restaurantBookings) < MaxReadRows
       /\ \E body \in ReadBodies, caller \in Callers :
             \/ RoomCheck(1, body, caller)
             \/ SpaCheck(1, body, caller)
             \/ RestaurantCheck(1, body, caller)
    \/ RoomCreate(1)
    \/ SpaCreate(1)
    \/ RestaurantCreate(1)
    \/ \E q \in ReadBodies :
          \/ RoomAvailability(1, q)
          \/ SpaAvailability(1, q)
          \/ RestaurantAvailability(1, q)
    \/ \E caller \in Callers :
          \/ MyRoomBookings(1, caller)
          \/ MySpaBookings(1, caller)
          \/ MyRestaurantBookings(1, caller)
          \/ AdminBookings(1, caller)
    \/ \E body \in ReadStatusBodies, caller \in Callers :
          \/ PatchRoomBookingStatus(1, body, caller)
          \/ PatchSpaBookingStatus(1, body, caller)
          \/ PatchRestaurantBookingStatus(1, body, caller)
    \/ Reply(1)

SpecRead == Init /\ [][NextRead]_vars

\* C23: a step in which a stored booking's status changes is a status update
\* answered 200 to an administrator and addressed to that booking; booking
\* submissions, availability checks and listings never change one.
StatusChangesOnlyByUpdate ==
    [][\A k \in 1..3 : \A i \in DOMAIN Tables[k] :
          (i \in DOMAIN Tables'[k] /\ Tables'[k][i].status # Tables[k][i].status)
            => \E p \in Procs :
                  /\ pc[p] = "idle"
                  /\ req'[p].kind = "status"
                  /\ req'[p].target = <<"room", "spa", "restaurant">>[k]
                  /\ req'[p].id = i
                  /\ res'[p] = 200
                  /\ isAdmin(user'[p])]_vars

\* C23 witness: with a cancelled and a confirmed booking stored, the admin
\* listing has just been answered and shows both statuses
ListingLeavesStatuses ==
    /\ pc[1] = "done"
    /\ req[1].kind = "admin-bookings"
    /\ res[1] = 200
    /\ \E i, j \in DOMAIN sent[1] : sent[1][i].status = "cancelled" /\ sent[1][j].status = "confirmed"

MyListings ==
    [kind  : {"my-room-bookings", "my-spa-bookings", "my-restaurant-bookings"}]

\* the table and the ordering column behind each 'my bookings' listing
ListedTable(kind) ==
    CASE kind = "my-room-bookings" -> roomBookings
      [] kind = "my-spa-bookings" -> spaBookings
      [] kind = "my-restaurant-bookings" -> restaurantBookings

ListedDate(kind, row) ==
    IF kind = "my-room-bookings" THEN row.checkInDate ELSE row.date

\* C24: an answered 'my bookings' listing holds exactly the stored bookings of
\* its kind whose userId is the caller's id, each once and as stored, latest
\* check-in date (rooms) or date (spa, restaurant) first; a caller who is not
\* signed in gets 401 and no booking data.
MyBookingsAreTheCallersOwn ==
    \A p \in Procs :
        (pc[p] = "done" /\ req[p] \in MyListings) =>
            IF ~user[p].authenticated
              THEN res[p] = 401 /\ sent[p] = NoBody
              ELSE LET rows == ListedTable(req[p].kind)
                       list == sent[p]
                       own == {i \in DOMAIN rows : rows[i].userId = user[p].id}
                   IN  /\ res[p] = 200
                       /\ {list[k].id : k \in DOMAIN list} = own
                       /\ Len(list) = Cardinality(own)
                       /\ \A k \in DOMAIN list : list[k] = Row(rows, list[k].id)
                       /\ \A k, l \in DOMAIN list :
                             k < l => ListedDate(req[p].kind, list[k])
                                        >= ListedDate(req[p].kind, list[l])

\* C24 witness: a signed-in user with two room bookings of different check-in
\* dates has been answered a listing that starts with the later one
LaterCheckInListedFirst ==
    /\ pc[1] = "done"
    /\ req[1].kind = "my-room-bookings"
    /\ res[1] = 200
    /\ Len(sent[1]) = 2
    /\ sent[1][1].checkInDate > sent[1][2].checkInDate
    /\ sent[1][1].id < sent[1][2].id

\* the answered admin aggregate listings, and the stored booking behind entry e
AdminListed(p) ==
    pc[p] = "done" /\ req[p].kind = "admin-bookings" /\ res[p] = 200

BookingOf(e) == TableOf(e.bookingType)[e.id]

UserRecords(e) == {u \in users : e.userId # Null /\ u.id = e.userId}

\* a text as the listing shows it: a null column is shown as the empty text
Shown(x) == IF x = NullText THEN "" ELSE x

\* C25 as stated: an entry whose owner's user record exists shows that user's
\* name, e-mail and phone, and an entry without an owner shows the guest's.
OwnerRecordShown ==
    \A p \in Procs : AdminListed(p) =>
        \A k \in DOMAIN sent[p] :
            LET e == sent[p][k]
            IN  /\ \A u \in UserRecords(e) :
                      /\ e.userFullName = u.fullName
                      /\ e.userEmail = u.email
                      /\ e.userPhone = Shown(u.phone)
                /\ e.userId = Null =>
                      /\ e.userFullName = BookingOf(e).guestName
                      /\ e.userEmail = BookingOf(e).guestEmail
                      /\ e.userPhone = Shown(BookingOf(e).guestPhone)

\* C25 amended: each display field is the owner's value when the owner's
\* user record exists and holds a non-empty value for it, and the
\* guest-supplied value otherwise (the empty text for a phone neither has).
OwnerValueElseGuestValue ==
    \A p \in Procs : AdminListed(p) =>
        \A k \in DOMAIN sent[p] :
            LET e == sent[p][k]
                b == BookingOf(e)
                has(f) == \E u \in UserRecords(e) : u[f] \notin {NullText, ""}
                of(f) == (CHOOSE u \in UserRecords(e) : TRUE)[f]
            IN  /\ e.userFullName = IF has("fullName") THEN of("fullName") ELSE b.guestName
                /\ e.userEmail = IF has("email") THEN of("email") ELSE b.guestEmail
                /\ e.userPhone = IF has("phone") THEN of("phone") ELSE Shown(b.guestPhone)

\* C25 witness: the listing shows a booking of a user who has no phone under
\* that user's name and e-mail with the guest-supplied phone, next to a
\* booking of a user who has one
GuestPhoneShownForOwner ==
    /\ AdminListed(1)
    /\ \E k, l \in DOMAIN sent[1] :
          /\ \E u \in UserRecords(sent[1][k]) :
                /\ u.phone = NullText
                /\ sent[1][k].userFullName = u.fullName
                /\ sent[1][k].userPhone = BookingOf(sent[1][k]).guestPhone
                /\ sent[1][k].userPhone # ""
          /\ \E u \in UserRecords(sent[1][l]) :
                /\ u.phone # NullText
                /\ sent[1][l].userPhone = u.phone

(***************************************************************************)
(* Room occupancy: two handlers submit stays of one room type (and one of  *)
(* another) while an administrator changes statuses.                       *)
(***************************************************************************)
MaxOccupancyRows == 4

OccupancyBodies ==
    {RoomBody(1, DateString(1), DateString(3)),
     RoomBody(1, DateString(2), DateString(3)),
     RoomBody(2, DateString(1), DateString(3))}

OccupancyStatusBodies == {StatusBody("room", 1, "cancelled")}

NextOccupancy ==
    \E p \in Procs :
        \/ /\ Len(roomBookings) + Cardinality({q \in Procs : pc[q] = "create"})
                < MaxOccupancyRows
           /\ \E body \in OccupancyBodies : RoomCheck(p, body, Anonymous)
        \/ RoomCreate(p)
        \/ \E body \in OccupancyStatusBodies : PatchRoomBookingStatus(p, body, Admin)
        \/ Reply(p)

SpecOccupancy == Init /\ [][NextOccupancy]_vars

\* the stored room bookings of a type that cover an instant
Covering(roomTypeId, instant) ==
    {i \in DOMAIN roomBookings :
        /\ roomBookings[i].roomTypeId = roomTypeId
        /\ roomBookings[i].checkInDate <= instant
        /\ instant < roomBookings[i].checkOutDate}

\* C26: as long as no room submission has inserted on an availability read
\* that predates another submission's insert, for every room type and every
\* instant at most 3 stored room bookings of that type cover the instant,
\* whatever submissions were accepted or rejected and statuses changed.
SerializedRoomsWithinCapacity ==
    ~raced =>
        \A roomTypeId \in 1..NumRoomTypes, instant \in 0..MaxInstant :
            Cardinality(Covering(roomTypeId, instant)) <= RoomCapacity

\* C26 witness: with no stale read, three bookings of a type cover an
\* instant, one of them cancelled, and a fourth submission covering that
\* instant has just been refused
FourthCoveringStayRefused ==
    /\ ~raced
    /\ \E p \in Procs, instant \in 0..MaxInstant :
          /\ pc[p] = "done" /\ req[p].kind = "room" /\ res[p] = 409
          /\ ParseDate(req[p].checkInDate) <= instant
          /\ instant < ParseDate(req[p].checkOutDate)
          /\ Cardinality(Covering(req[p].roomTypeId, instant)) = RoomCapacity
          /\ \E i \in Covering(req[p].roomTypeId, instant) :
                roomBookings[i].status = "cancelled"

(***************************************************************************)
(* Capacity groups that fill up while an administrator cancels and         *)
(* completes their bookings.                                               *)
(***************************************************************************)
MaxCancelRows == 3

CancelBodies ==
    {ValidRoomBody, ValidSpaBody, RestaurantBody(DateString(0), "7:00 PM", 25, "dinner")}

CancelStatusBodies ==
    {StatusBody(t, id, s) : t \in {"room", "spa", "restaurant"}, id \in 1..MaxCancelRows,
                            s \in {"cancelled", "completed"}}

NextCancel ==
    \/ /\ Len(roomBookings) + Len(spaBookings) + Len(restaurantBookings) < MaxCancelRows
       /\ \E body \in CancelBodies :
             \/ RoomCheck(1, body, Anonymous)
             \/ SpaCheck(1, body, Anonymous)
             \/ RestaurantCheck(1, body, Anonymous)
    \/ /\ Len(roomBookings) + Len(spaBookings) + Len(restaurantBookings) = MaxCancelRows
       /\ \E body \in CancelBodies :
             \/ RoomCheck(1, body, Anonymous)
             \/ SpaCheck(1, body, Anonymous)
             \/ RestaurantCheck(1, body, Anonymous)
       /\ pc'[1] = "done"
    \/ RoomCreate(1)
    \/ SpaCreate(1)
    \/ RestaurantCreate(1)
    \/ \E body \in CancelStatusBodies :
          \/ PatchRoomBookingStatus(1, body, Admin)
          \/ PatchSpaBookingStatus(1, body, Admin)
          \/ PatchRestaurantBookingStatus(1, body, Admin)
    \/ Reply(1)

SpecCancel == Init /\ [][NextCancel]_vars

\* C27: a status update, to cancelled and completed included, leaves the
\* verdict of every availability check as it was: rows keep consuming
\* capacity whatever their status.
StatusNeverFreesCapacity ==
    [][(\E p \in Procs : pc[p] = "idle" /\ req'[p].kind = "status")
          => \A body \in CancelBodies : Available(body)' = Available(body)]_vars

\* C27 witness: a room submission has just been refused by a group whose
\* three bookings are all cancelled or completed
CancelledGroupStillFull ==
    /\ pc[1] = "done" /\ req[1].kind = "room" /\ res[1] = 409
    /\ Len(roomBookings) = RoomCapacity
    /\ \A i \in DOMAIN roomBookings : roomBookings[i].status \in {"cancelled", "completed"}
    /\ \E i \in DOMAIN roomBookings : roomBookings[i].status = "cancelled"

(***************************************************************************)
(* Back-to-back stays of one room type and a long stay across them.        *)
(***************************************************************************)
MaxDisjointRows == 4

DisjointStays == {<<1, 2>>, <<2, 3>>, <<3, 4>>, <<1, 4>>}

DisjointBodies == {RoomBody(1, DateString(s[1]), DateString(s[2])) : s \in DisjointStays}

NextDisjoint ==
    \/ /\ Len(roomBookings) < MaxDisjointRows
       /\ \E body \in DisjointBodies : RoomCheck(1, body, Anonymous)
    \/ RoomCreate(1)
    \/ Reply(1)

SpecDisjoint == Init /\ [][NextDisjoint]_vars

\* the stored bookings of a payload's room type that share an instant with its stay
SharingAnInstant(body) ==
    {i \in DOMAIN roomBookings :
        /\ roomBookings[i].roomTypeId = body.roomTypeId
        /\ roomBookings[i].checkInDate < ParseDate(body.checkOutDate)
        /\ ParseDate(body.checkInDate) < roomBookings[i].checkOutDate}

\* the most rooms of the payload's type occupied at one instant of its stay
PeakOccupancy(body) ==
    LET instants == ParseDate(body.checkInDate)..(ParseDate(body.checkOutDate) - 1)
        load(t) == Cardinality(Covering(body.roomTypeId, t))
    IN  IF instants = {} THEN 0
        ELSE load(CHOOSE t \in instants : \A u \in instants : load(u) <= load(t))

\* C28: a room submission whose stay shares an instant with 3 stored
\* bookings of its room type is refused, however few rooms are occupied at
\* any one instant of the stay, and one that is admitted has fewer than 3
\* rooms occupied at every instant of its stay.
OverlapCountNotOccupancy ==
    [][\A p \in Procs :
          (pc[p] = "idle" /\ req'[p].kind = "room" /\ PassesSchema(req'[p])) =>
              /\ Cardinality(SharingAnInstant(req'[p])) >= RoomCapacity => res'[p] = 409
              /\ pc'[p] = "create" => PeakOccupancy(req'[p]) < RoomCapacity]_vars

\* C28 witness: a stay has just been refused that spans three stored stays
\* of which no two share an instant, so that at each of its instants one
\* room of three is occupied
LongStayRefusedOverDisjointStays ==
    /\ pc[1] = "done" /\ req[1].kind = "room" /\ res[1] = 409
    /\ Len(roomBookings) = RoomCapacity
    /\ SharingAnInstant(req[1]) = DOMAIN roomBookings
    /\ \A i, j \in DOMAIN roomBookings :
          i # j => \/ roomBookings[i].checkOutDate <= roomBookings[j].checkInDate
                   \/ roomBookings[j].checkOutDate <= roomBookings[i].checkInDate
    /\ PeakOccupancy(req[1]) = 1

(***************************************************************************)
(* Availability asked with the parameters of a submission: each payload is *)
(* both submitted and sent as the query of the availability endpoint of    *)
(* its kind.                                                               *)
(***************************************************************************)
MaxAvailRows == 4

AvailBodies ==
    {ValidRoomBody, RoomBody(1, BadDateString, DateString(2)),
     ValidSpaBody, [ValidSpaBody EXCEPT !.time = ""],
     RestaurantBody(DateString(0), "7:00 PM", 25, "dinner")}

NextAvail ==
    \/ /\ Len(roomBookings) + Len(spaBookings) + Len(restaurantBookings) < MaxAvailRows
       /\ \E body \in AvailBodies :
             \/ RoomCheck(1, body, Anonymous)
             \/ SpaCheck(1, body, Anonymous)
             \/ RestaurantCheck(1, body, Anonymous)
    \/ RoomCreate(1)
    \/ SpaCreate(1)
    \/ RestaurantCreate(1)
    \/ \E q \in AvailBodies :
          \/ RoomAvailability(1, q)
          \/ SpaAvailability(1, q)
          \/ RestaurantAvailability(1, q)
    \/ Reply(1)

SpecAvail == Init /\ [][NextAvail]_vars

\* the answer of the availability endpoint of a payload's kind to the payload's parameters
AvailabilityResponse(body) ==
    IF body.kind = "room" THEN RoomAvailabilityResponse(body)
    ELSE IF body.kind = "spa" THEN SpaAvailabilityResponse(body)
    ELSE RestaurantAvailabilityResponse(body)

\* C29: an availability GET leaves the three tables as they were, and a
\* schema-valid submission is admitted exactly when the availability GET of
\* its kind answers available: true to the same parameters in the same state.
AdmittedIffReportedAvailable ==
    [][\A p \in Procs :
          /\ (pc[p] = "idle" /\ req'[p].kind \in {"room-availability", "spa-availability",
                                                  "restaurant-availability"})
                => UNCHANGED <<roomBookings, spaBookings, restaurantBookings>>
          /\ (pc[p] = "idle" /\ req'[p].kind \in {"room", "spa", "restaurant"}
                /\ PassesSchema(req'[p]))
                => (pc'[p] = "create"
                      <=> AvailabilityResponse(req'[p])
                            = [status |-> 200, json |-> [available |-> TRUE]])]_vars

\* C30: a status update answered 200 leaves the three tables at their
\* lengths and every row as it was, except that the row of the given id in
\* the addressed table has the new status and its other fields as before;
\* the rows of the same id in the other two tables are untouched.
StatusUpdateTouchesOneField ==
    [][\A p \in Procs :
          (pc[p] = "idle" /\ req'[p].kind = "status" /\ res'[p] = 200) =>
              \A k \in 1..3 :
                  /\ Len(Tables'[k]) = Len(Tables[k])
                  /\ \A i \in DOMAIN Tables[k] :
                        Tables'[k][i] =
                            IF <<"room", "spa", "restaurant">>[k] = req'[p].target
                                 /\ i = req'[p].id
                              THEN [Tables[k][i] EXCEPT !.status = req'[p].status]
                              ELSE Tables[k][i]]_vars

\* C30 witness: the second spa booking has just been cancelled by an
\* administrator while the first one is still confirmed
SecondSpaBookingCancelledAlone ==
    /\ pc[1] = "done" /\ req[1].kind = "status" /\ res[1] = 200
    /\ req[1].target = "spa" /\ req[1].id = 2
    /\ Len(spaBookings) = 2
    /\ spaBookings[1].status = "confirmed"
    /\ spaBookings[2].status = "cancelled"

====
